---- MODULE Spec2Model ----
(***************************************************************************)
(* Saturn Allocation Table (SAT) save partition of libslinga:              *)
(* src/devices/sat/sat.c.  The partition is modelled byte for byte (the    *)
(* physical bytes, padding bytes of the skip_bytes mode included); every   *)
(* sat_* entry point is an operator translated from its C function and an  *)
(* action that applies it to the partition.                                *)
(***************************************************************************)
EXTENDS Integers, Sequences, FiniteSets, TLC

VARIABLES
    part,            \* the partition buffer, physical bytes (see ByteAt)
    dev,             \* partition_size, block_size and skip_bytes every call is given
    nops,            \* number of calls that may change the partition, so far
    last,            \* the last call that may change the partition, and its result
    obs,             \* the last read-only call made since, and its result
    raw              \* what was changed on the medium behind the library's back

vars == <<part, dev, nops, last, obs, raw>>

(***************************************************************************)
(* Bounds of the model                                                     *)
(***************************************************************************)
NumBlocks == 24          \* blocks of the modelled partition
MaxOps == 3              \* calls per behaviour
MaxRawOps == 2           \* calls before the partition is changed from outside
MaxPayload == 900        \* largest payload of the writes of every size
MaxSaveSize == 4000      \* largest save size calc_num_blocks is run on
MaxListOps == 2          \* calls before the saves are listed into an array
MaxLongOps == 2          \* calls made on a medium with a history
MaxSharedOps == 2        \* calls made on a medium that two saves share
MaxChainOps == 1         \* calls before another program changes a save
MaxExtraBlocks == 40      \* blocks below and above ACTION_REPLAY_MAX_BLOCKS
MaxNameOps == 2          \* calls that pass a filename and a save name
MaxIoLen == 3            \* bytes that one accessor call moves
MaxIoOps == 1            \* accessor calls that write
MaxBitmapBytes == 2      \* bytes of the buffer a bitmap is drawn in
MaxInvertOps == 2        \* calls of invert_bitmap on one bitmap
MaxStream == 4           \* bytes of a compressed stream
MaxBlockUnits == 3       \* largest block, in units of MIN_BLOCK_SIZE valid bytes

(***************************************************************************)
(* Program constants                                                       *)
(***************************************************************************)
MIN_BLOCK_SIZE == 64
SAT_TAG_SIZE == 4
SAT_MAX_SAVE_NAME == 11
SAT_MAX_SAVE_COMMENT == 10
SAT_HEADER_SIZE == 34            \* sizeof(SAT_START_BLOCK_HEADER), packed
SAT_MAX_BITMAP == 1024
BACKUP_RAM_FORMAT_STR_LEN == 16
OVERWRITE_EXISTING_SAVE == 2
INTERNAL_MEMORY_BLOCK_SIZE == 128
ACTION_REPLAY_BLOCK_SIZE == 64
ACTION_REPLAY_UNCOMPRESSED_MAX_SIZE == 524288
RLE01_HEADER_SIZE == 10          \* sizeof(RLE01_HEADER), packed

\* "BackUpRam Format"
BACKUP_RAM_FORMAT_STR == <<66, 97, 99, 107, 85, 112, 82, 97, 109, 32, 70, 111, 114, 109, 97, 116>>

\* SAT_START_BLOCK_TAG 0x80000000 and SAT_CONTINUE_BLOCK_TAG 0, as the four
\* bytes the SH-2 (big endian) stores for the unsigned int
SAT_START_BLOCK_TAG == <<128, 0, 0, 0>>
SAT_CONTINUE_BLOCK_TAG == <<0, 0, 0, 0>>

SLINGA_SUCCESS == "SLINGA_SUCCESS"
SLINGA_BUFFER_TOO_SMALL == "SLINGA_BUFFER_TOO_SMALL"
SLINGA_INVALID_PARAMETER == "SLINGA_INVALID_PARAMETER"
SLINGA_FILE_EXISTS == "SLINGA_FILE_EXISTS"
SLINGA_NOT_FOUND == "SLINGA_NOT_FOUND"
SLINGA_MORE_DATA_AVAILABLE == "SLINGA_MORE_DATA_AVAILABLE"
SLINGA_NOT_ENOUGH_SPACE == "SLINGA_NOT_ENOUGH_SPACE"
SLINGA_SAT_UNFORMATTED == "SLINGA_SAT_UNFORMATTED"
SLINGA_SAT_SAVE_OUT_OF_RANGE == "SLINGA_SAT_SAVE_OUT_OF_RANGE"
SLINGA_SAT_INVALID_PARTITION == "SLINGA_SAT_INVALID_PARTITION"
SLINGA_SAT_TOO_MANY_BLOCKS == "SLINGA_SAT_TOO_MANY_BLOCKS"
SLINGA_SAT_BLOCKS_OUT_OF_ORDER == "SLINGA_SAT_BLOCKS_OUT_OF_ORDER"
SLINGA_SAT_INVALID_SIZE == "SLINGA_SAT_INVALID_SIZE"
SLINGA_SAT_INVALID_READ_SIZE == "SLINGA_SAT_INVALID_READ_SIZE"
SLINGA_SAT_INVALID_TAG == "SLINGA_SAT_INVALID_TAG"
SLINGA_ACTION_REPLAY_UNSUPPORTED_COMPRESSION == "SLINGA_ACTION_REPLAY_UNSUPPORTED_COMPRESSION"
SLINGA_ACTION_REPLAY_CORRUPT_COMPRESSION_HEADER == "SLINGA_ACTION_REPLAY_CORRUPT_COMPRESSION_HEADER"
SLINGA_ACTION_REPLAY_FAILED_DECOMPRESS_1 == "SLINGA_ACTION_REPLAY_FAILED_DECOMPRESS_1"
SLINGA_ACTION_REPLAY_FAILED_DECOMPRESS_2 == "SLINGA_ACTION_REPLAY_FAILED_DECOMPRESS_2"
SLINGA_ACTION_REPLAY_PARTITION_TOO_LARGE == "SLINGA_ACTION_REPLAY_PARTITION_TOO_LARGE"

(***************************************************************************)
(* The parameters a device hands to the sat_* functions.  Internal memory  *)
(* has 0x80-byte blocks of which every other byte is valid, the Action     *)
(* Replay partition has 64-byte blocks and no skipped bytes; the third     *)
(* entry is a caller that passes a block larger than the partition.        *)
(* buffer_size is the memory behind partition_buf.                         *)
(***************************************************************************)
Geometries ==
    { [partition_size |-> NumBlocks * INTERNAL_MEMORY_BLOCK_SIZE,
       block_size |-> INTERNAL_MEMORY_BLOCK_SIZE, skip_bytes |-> 1,
       buffer_size |-> NumBlocks * INTERNAL_MEMORY_BLOCK_SIZE],
      [partition_size |-> NumBlocks * ACTION_REPLAY_BLOCK_SIZE,
       block_size |-> ACTION_REPLAY_BLOCK_SIZE, skip_bytes |-> 0,
       buffer_size |-> NumBlocks * ACTION_REPLAY_BLOCK_SIZE],
      [partition_size |-> ACTION_REPLAY_BLOCK_SIZE,
       block_size |-> 2 * ACTION_REPLAY_BLOCK_SIZE, skip_bytes |-> 0,
       buffer_size |-> 2 * ACTION_REPLAY_BLOCK_SIZE] }

Min(a, b) == IF a < b THEN a ELSE b

\* unsigned short / unsigned int as stored in memory (big endian)
U16Bytes(v) == <<(v \div 256) % 256, v % 256>>

U16Val(b) == b[1] * 256 + b[2]

U32Bytes(v) == <<(v \div 16777216) % 256, (v \div 65536) % 256, (v \div 256) % 256, v % 256>>

U32Val(b) == b[1] * 16777216 + b[2] * 65536 + b[3] * 256 + b[4]

(***************************************************************************)
(* Skip bytes layer.  A pointer into the partition is the physical offset  *)
(* `base`; offsets and sizes are logical.                                  *)
(***************************************************************************)
\* an accessor that takes the even bytes of a skip_bytes = 1 medium
PhysAddr_even(base, off, i, sk) == IF sk = 0 THEN base + off + i ELSE base + 2 * off + 2 * i

PhysAddr(base, off, i, sk) == IF sk = 0 THEN base + off + i ELSE base + 2 * off + 2 * i + sk

\* The buffer is kept in rows of MIN_BLOCK_SIZE bytes (every block size is a
\* multiple of it): the byte at physical offset a is p[a / 64][a % 64].
ByteAt(p, a) == p[a \div MIN_BLOCK_SIZE][a % MIN_BLOCK_SIZE]

Buffer(nbytes, val) ==
    [r \in 0..((nbytes \div MIN_BLOCK_SIZE) - 1) |-> [o \in 0..(MIN_BLOCK_SIZE - 1) |-> val]]

\* a null pointer (no C string or buffer holds the byte -1)
NULL == <<-1>>

read_from_partition(src, base, src_offset, size, sk) ==
    IF src = NULL \/ size = 0 THEN [res |-> SLINGA_INVALID_PARAMETER, dst |-> <<>>]
    ELSE IF sk # 0 /\ sk # 1 THEN [res |-> SLINGA_INVALID_PARAMETER, dst |-> <<>>]
    ELSE [res |-> SLINGA_SUCCESS,
          dst |-> [i \in 1..size |-> ByteAt(src, PhysAddr(base, src_offset, i - 1, sk))]]

\* a is one of the physical offsets that a write or fill of `size` logical
\* bytes at (base, off) touches
Touched(a, base, off, size, sk) ==
    IF sk = 0 THEN a >= base + off /\ a < base + off + size
    ELSE /\ a >= base + 2 * off + sk
         /\ a < base + 2 * off + 2 * size
         /\ (a - base - 2 * off - sk) % 2 = 0

LogIndex(a, base, off, sk) == IF sk = 0 THEN a - base - off ELSE (a - base - 2 * off - sk) \div 2

\* the buffer with the bytes of src stored at the offsets the write touches
Store(dst, base, off, src, size, sk) ==
    LET lo == PhysAddr(base, off, 0, sk)
        hi == PhysAddr(base, off, size - 1, sk)
    IN [r \in DOMAIN dst |->
          IF (r + 1) * MIN_BLOCK_SIZE <= lo \/ r * MIN_BLOCK_SIZE > hi THEN dst[r]
          ELSE [o \in 0..(MIN_BLOCK_SIZE - 1) |->
                  IF Touched(r * MIN_BLOCK_SIZE + o, base, off, size, sk)
                  THEN src[LogIndex(r * MIN_BLOCK_SIZE + o, base, off, sk) + 1]
                  ELSE dst[r][o]]]

write_to_partition(dst, base, dst_offset, src, size, sk) ==
    IF dst = NULL \/ src = NULL \/ size = 0 THEN [res |-> SLINGA_INVALID_PARAMETER, part |-> dst]
    ELSE IF sk # 0 /\ sk # 1 THEN [res |-> SLINGA_INVALID_PARAMETER, part |-> dst]
    ELSE [res |-> SLINGA_SUCCESS, part |-> Store(dst, base, dst_offset, src, size, sk)]

\* a fill that reports success and stores nothing
memset_partition_skipped(dst, base, dst_offset, val, size, sk) ==
    [res |-> SLINGA_SUCCESS, part |-> dst]

memset_partition(dst, base, dst_offset, val, size, sk) ==
    IF dst = NULL \/ size = 0 THEN [res |-> SLINGA_INVALID_PARAMETER, part |-> dst]
    ELSE IF sk # 0 /\ sk # 1 THEN [res |-> SLINGA_INVALID_PARAMETER, part |-> dst]
    ELSE [res |-> SLINGA_SUCCESS,
          part |-> Store(dst, base, dst_offset, [i \in 1..size |-> val], size, sk)]

(***************************************************************************)
(* SAT bitmap: bitmap_size bytes, bit (i % 8) of byte (i / 8) is block i.  *)
(***************************************************************************)
Pow2(k) == CASE k = 0 -> 1 [] k = 1 -> 2 [] k = 2 -> 4 [] k = 3 -> 8
             [] k = 4 -> 16 [] k = 5 -> 32 [] k = 6 -> 64 [] OTHER -> 128

BitSet(byte, k) == (byte \div Pow2(k)) % 2 = 1

TestBit(bitmap, i) == BitSet(bitmap[i \div 8], i % 8)

ZeroBitmap(bitmap_size) == [i \in 0..(bitmap_size - 1) |-> 0]

get_bitmap_size(partition_size, block_size, max_bitmap_size) ==
    IF partition_size = 0 \/ block_size = 0 \/ max_bitmap_size = 0
    THEN [res |-> SLINGA_INVALID_PARAMETER, bitmap_size |-> 0]
    ELSE IF block_size % 8 # 0 THEN [res |-> SLINGA_INVALID_PARAMETER, bitmap_size |-> 0]
    ELSE IF partition_size % block_size # 0 THEN [res |-> SLINGA_INVALID_PARAMETER, bitmap_size |-> 0]
    ELSE [res |-> SLINGA_SUCCESS, bitmap_size |-> (partition_size \div block_size) \div 8]

set_bitmap(block_index, bitmap, bitmap_size) ==
    IF bitmap_size = 0 THEN [res |-> SLINGA_INVALID_PARAMETER, bitmap |-> bitmap]
    ELSE IF block_index \div 8 >= bitmap_size THEN [res |-> SLINGA_INVALID_PARAMETER, bitmap |-> bitmap]
    ELSE [res |-> SLINGA_SUCCESS,
          bitmap |-> IF TestBit(bitmap, block_index) THEN bitmap
                     ELSE [bitmap EXCEPT ![block_index \div 8] = @ + Pow2(block_index % 8)]]

RECURSIVE NextSetBit(_, _, _)
NextSetBit(i, bitmap, bitmap_size) ==
    IF i >= bitmap_size * 8 THEN -1
    ELSE IF TestBit(bitmap, i) THEN i
    ELSE NextSetBit(i + 1, bitmap, bitmap_size)

get_next_block_bitmap(block_index, bitmap, bitmap_size) ==
    IF bitmap_size = 0 THEN [res |-> SLINGA_INVALID_PARAMETER, next |-> 0]
    ELSE LET n == NextSetBit(block_index + 1, bitmap, bitmap_size)
         IN IF n = -1 THEN [res |-> SLINGA_NOT_FOUND, next |-> 0]
            ELSE [res |-> SLINGA_SUCCESS, next |-> n]

NIBBLE_LOOKUP_TABLE == <<0, 1, 1, 2, 1, 2, 2, 3, 1, 2, 2, 3, 2, 3, 3, 4>>

RECURSIVE CountFrom(_, _, _)
CountFrom(i, bitmap, bitmap_size) ==
    IF i >= bitmap_size THEN 0
    ELSE NIBBLE_LOOKUP_TABLE[(bitmap[i] % 16) + 1] + NIBBLE_LOOKUP_TABLE[(bitmap[i] \div 16) + 1]
         + CountFrom(i + 1, bitmap, bitmap_size)

count_bitmap(bitmap, bitmap_size) ==
    IF bitmap = NULL \/ bitmap_size = 0 THEN [res |-> SLINGA_INVALID_PARAMETER, total |-> 0]
    ELSE [res |-> SLINGA_SUCCESS, total |-> CountFrom(0, bitmap, bitmap_size)]

\* a bitmap whose bytes are left as they are
invert_bitmap_kept(bitmap, bitmap_size) ==
    IF bitmap = NULL \/ bitmap_size = 0
    THEN [res |-> SLINGA_INVALID_PARAMETER, bitmap |-> bitmap]
    ELSE [res |-> SLINGA_SUCCESS, bitmap |-> bitmap]

invert_bitmap(bitmap, bitmap_size) ==
    IF bitmap = NULL \/ bitmap_size = 0
    THEN [res |-> SLINGA_INVALID_PARAMETER, bitmap |-> bitmap]
    ELSE [res |-> SLINGA_SUCCESS,
          bitmap |-> [i \in DOMAIN bitmap |->
                        IF i < bitmap_size THEN 255 - bitmap[i] ELSE bitmap[i]]]

(***************************************************************************)
(* Block helpers                                                           *)
(***************************************************************************)
\* one pass of the do-while loop: the blocks needed when the index chain has
\* num_blocks entries and its terminator
CalcStep_unterminated(num_blocks, fixed_bytes, usable) ==
    LET total_bytes == fixed_bytes + num_blocks * 2
    IN (total_bytes \div usable) + (IF total_bytes % usable # 0 THEN 1 ELSE 0)

CalcStep(num_blocks, fixed_bytes, usable) ==
    LET total_bytes == fixed_bytes + (num_blocks + 1) * 2
    IN (total_bytes \div usable) + (IF total_bytes % usable # 0 THEN 1 ELSE 0)

\* a loop that rounds up also when nothing remains
RECURSIVE CalcLoop_roundup(_, _, _)
CalcLoop_roundup(num_blocks2, fixed_bytes, usable) ==
    LET n2 == ((fixed_bytes + (num_blocks2 + 1) * 2) \div usable) + 1
    IN IF num_blocks2 = n2 THEN num_blocks2 ELSE CalcLoop_roundup(n2, fixed_bytes, usable)

RECURSIVE CalcLoop(_, _, _)
CalcLoop(num_blocks2, fixed_bytes, usable) ==
    LET n2 == CalcStep(num_blocks2, fixed_bytes, usable)
    IN IF num_blocks2 = n2 THEN num_blocks2 ELSE CalcLoop(n2, fixed_bytes, usable)

calc_num_blocks(save_size, block_size, sk) ==
    IF save_size = 0 \/ block_size = 0 THEN [res |-> SLINGA_INVALID_PARAMETER, n |-> 0]
    ELSE IF sk # 0 /\ sk # 1 THEN [res |-> SLINGA_INVALID_PARAMETER, n |-> 0]
    ELSE LET bs == IF sk = 1 THEN block_size \div 2 ELSE block_size
         IN IF bs % MIN_BLOCK_SIZE # 0 THEN [res |-> SLINGA_INVALID_PARAMETER, n |-> 0]
            ELSE [res |-> SLINGA_SUCCESS,
                  n |-> CalcLoop(0, SAT_HEADER_SIZE - SAT_TAG_SIZE + save_size, bs - SAT_TAG_SIZE)]

\* addresses are physical offsets from partition_buf
convert_address_to_block_index(address, partition_size, block_size) ==
    IF partition_size = 0 \/ block_size = 0 THEN [res |-> SLINGA_INVALID_PARAMETER, index |-> 0]
    ELSE IF address < 0 THEN [res |-> SLINGA_INVALID_PARAMETER, index |-> 0]
    ELSE IF address >= partition_size THEN [res |-> SLINGA_INVALID_PARAMETER, index |-> 0]
    ELSE [res |-> SLINGA_SUCCESS, index |-> address \div block_size]

convert_block_index_to_address(block_index, partition_size, block_size, sk) ==
    IF partition_size = 0 \/ block_size = 0 THEN [res |-> SLINGA_INVALID_PARAMETER, address |-> 0]
    ELSE IF sk # 0 /\ sk # 1 THEN [res |-> SLINGA_INVALID_PARAMETER, address |-> 0]
    ELSE IF block_index * block_size >= partition_size THEN [res |-> SLINGA_INVALID_PARAMETER, address |-> 0]
    ELSE [res |-> SLINGA_SUCCESS, address |-> block_index * block_size]

(***************************************************************************)
(* Strings and the start block header                                      *)
(***************************************************************************)
\* the i-th char of a C string (1-based); the terminating NUL follows it
CharAt(str, i) == IF i <= Len(str) THEN str[i] ELSE 0

\* a char array of n bytes that was zeroed and then received the string
PadTo(str, n) == [i \in 1..n |-> CharAt(str, i)]

\* the C string held by a char array: the bytes before the first NUL
RECURSIVE CStrFrom(_, _)
CStrFrom(bytes, i) ==
    IF i > Len(bytes) \/ bytes[i] = 0 THEN <<>>
    ELSE <<bytes[i]>> \o CStrFrom(bytes, i + 1)

CStr(bytes) == CStrFrom(bytes, 1)

\* strncmp(filename, savename, n) == 0
RECURSIVE StrNEqFrom(_, _, _, _)
StrNEqFrom(filename, savename, i, n) ==
    IF i > n THEN TRUE
    ELSE IF CharAt(filename, i) # savename[i] THEN FALSE
    ELSE IF savename[i] = 0 THEN TRUE
    ELSE StrNEqFrom(filename, savename, i + 1, n)

strncmp_eq(filename, savename, n) == StrNEqFrom(filename, savename, 1, n)

\* fields of the 34 header bytes
HdrTag(h) == SubSeq(h, 1, 4)

HdrSavename(h) == SubSeq(h, 5, 15)

HdrLanguage(h) == h[16]

HdrComment(h) == SubSeq(h, 17, 26)

HdrTimestamp(h) == U32Val(SubSeq(h, 27, 30))

HdrDataSize(h) == U32Val(SubSeq(h, 31, 34))

\* SAVE_METADATA as the caller fills it (Slinga_SetSaveMetadata zeroes the
\* struct and copies the strings in)
Metadata(savename, comment, language, timestamp, data_size) ==
    [savename |-> PadTo(savename, 13), comment |-> PadTo(comment, 13),
     language |-> language, timestamp |-> timestamp, data_size |-> data_size]

metadata_to_header(metadata) ==
    SAT_START_BLOCK_TAG
    \o SubSeq(metadata.savename, 1, SAT_MAX_SAVE_NAME)
    \o <<metadata.language>>
    \o SubSeq(metadata.comment, 1, SAT_MAX_SAVE_COMMENT)
    \o U32Bytes(metadata.timestamp)
    \o U32Bytes(metadata.data_size)

\* memcpy of MAX_SAVENAME (12) and MAX_COMMENT (11) bytes out of the 11 and
\* 10 byte fields of the header copy, then the terminating NUL
copy_metadata(src, save, sk) ==
    LET h == read_from_partition(src, save, 0, SAT_HEADER_SIZE, sk).dst
        savename == CStr(SubSeq(h, 5, 16))
    IN [savename |-> savename,
        filename |-> savename \o <<46, 66, 85, 80>>,
        comment |-> CStr(SubSeq(h, 17, 27)),
        language |-> HdrLanguage(h),
        timestamp |-> HdrTimestamp(h),
        data_size |-> HdrDataSize(h)]

(***************************************************************************)
(* Save locator                                                            *)
(***************************************************************************)
RECURSIVE FindSaveFrom(_, _, _, _, _, _)
FindSaveFrom(i, filename, p, partition_size, block_size, sk) ==
    IF i >= partition_size THEN [res |-> SLINGA_NOT_FOUND, save_start |-> 0]
    ELSE LET h == read_from_partition(p, i, 0, SAT_HEADER_SIZE, sk)
         IN IF h.res # SLINGA_SUCCESS THEN [res |-> h.res, save_start |-> 0]
            ELSE IF HdrTag(h.dst) = SAT_START_BLOCK_TAG
                    /\ strncmp_eq(filename, HdrSavename(h.dst), SAT_MAX_SAVE_NAME)
            THEN [res |-> SLINGA_SUCCESS, save_start |-> i]
            ELSE FindSaveFrom(i + block_size, filename, p, partition_size, block_size, sk)

find_save(filename, p, partition_size, block_size, sk) ==
    IF filename = NULL \/ partition_size = 0 \/ block_size = 0
    THEN [res |-> SLINGA_INVALID_PARAMETER, save_start |-> 0]
    ELSE FindSaveFrom(2 * block_size, filename, p, partition_size, block_size, sk)

(***************************************************************************)
(* SAT table reader                                                        *)
(***************************************************************************)
\* the for loop of read_sat_table_from_block over the 2-byte entries
RECURSIVE SatEntryLoop(_, _, _, _, _, _, _, _, _, _)
SatEntryLoop(start_byte, limit, block_index, base, p, sk, bitmap, bitmap_size, sdb, wse) ==
    IF start_byte >= limit
    THEN [res |-> SLINGA_MORE_DATA_AVAILABLE, bitmap |-> bitmap,
          start_data_block |-> sdb, written_sat_entries |-> wse]
    ELSE LET index == U16Val(read_from_partition(p, base, start_byte, 2, sk).dst)
         IN IF index = 0
            THEN [res |-> SLINGA_SUCCESS, bitmap |-> bitmap,
                  start_data_block |-> block_index, written_sat_entries |-> wse]
            ELSE IF index <= block_index
            THEN [res |-> SLINGA_SAT_BLOCKS_OUT_OF_ORDER, bitmap |-> bitmap,
                  start_data_block |-> sdb, written_sat_entries |-> wse]
            ELSE LET s == set_bitmap(index, bitmap, bitmap_size)
                 IN IF s.res # SLINGA_SUCCESS
                    THEN [res |-> s.res, bitmap |-> bitmap,
                          start_data_block |-> sdb, written_sat_entries |-> wse]
                    ELSE SatEntryLoop(start_byte + 2, limit, block_index, base, p, sk,
                                      s.bitmap, bitmap_size, sdb, wse + 1)

read_sat_table_from_block(block_index, bitmap, bitmap_size, p, partition_size, block_size, sk, start_block, sdb, wse) ==
    LET fail(e) == [res |-> e, bitmap |-> bitmap, start_data_block |-> sdb,
                    written_sat_entries |-> wse]
        a == convert_block_index_to_address(block_index, partition_size, block_size, sk)
        tag == HdrTag(read_from_partition(p, a.address, 0, SAT_HEADER_SIZE, sk).dst)
        limit == IF sk = 1 THEN block_size \div 2 ELSE block_size
    IN IF block_index = 0 \/ bitmap_size = 0 \/ partition_size = 0 \/ block_size = 0
          \/ start_block = 0
       THEN fail(SLINGA_INVALID_PARAMETER)
       ELSE IF block_size % MIN_BLOCK_SIZE # 0 THEN fail(SLINGA_INVALID_PARAMETER)
       ELSE IF partition_size % block_size # 0 THEN fail(SLINGA_INVALID_PARAMETER)
       ELSE IF a.res # SLINGA_SUCCESS THEN fail(a.res)
       ELSE IF block_index = start_block /\ tag # SAT_START_BLOCK_TAG
       THEN fail(SLINGA_SAT_INVALID_TAG)
       ELSE IF block_index # start_block /\ tag # SAT_CONTINUE_BLOCK_TAG
       THEN fail(SLINGA_SAT_INVALID_TAG)
       ELSE SatEntryLoop(IF block_index = start_block THEN SAT_HEADER_SIZE ELSE SAT_TAG_SIZE,
                         limit, block_index, a.address, p, sk, bitmap, bitmap_size, sdb, wse)

\* the do-while loop of read_sat_table
RECURSIVE SatTableLoop(_, _, _, _, _, _, _, _, _, _, _)
SatTableLoop(cur_sat_block, bitmap, bitmap_size, p, partition_size, block_size, sk, start_block, sdb, wse, num_sat_blocks) ==
    IF wse > num_sat_blocks
    THEN [res |-> SLINGA_SAT_TOO_MANY_BLOCKS, bitmap |-> bitmap, start_block |-> start_block,
          start_data_block |-> sdb]
    ELSE LET r == read_sat_table_from_block(cur_sat_block, bitmap, bitmap_size, p, partition_size,
                                            block_size, sk, start_block, sdb, wse)
             g == get_next_block_bitmap(cur_sat_block, r.bitmap, bitmap_size)
         IN \* if(result == SLINGA_SUCCESS && result != SLINGA_MORE_DATA_AVAILABLE)
            IF r.res = SLINGA_SUCCESS /\ r.res # SLINGA_MORE_DATA_AVAILABLE
            THEN [res |-> r.res, bitmap |-> r.bitmap, start_block |-> start_block,
                  start_data_block |-> r.start_data_block]
            ELSE IF g.res = SLINGA_NOT_FOUND
            THEN IF count_bitmap(r.bitmap, bitmap_size).total # num_sat_blocks
                 THEN [res |-> SLINGA_SAT_INVALID_PARTITION, bitmap |-> r.bitmap,
                       start_block |-> start_block, start_data_block |-> r.start_data_block]
                 ELSE [res |-> SLINGA_SUCCESS, bitmap |-> r.bitmap,
                       start_block |-> start_block, start_data_block |-> r.start_data_block]
            ELSE IF g.res # SLINGA_SUCCESS
            THEN [res |-> g.res, bitmap |-> r.bitmap, start_block |-> start_block,
                  start_data_block |-> r.start_data_block]
            ELSE SatTableLoop(g.next, r.bitmap, bitmap_size, p, partition_size, block_size, sk,
                              start_block, r.start_data_block, r.written_sat_entries,
                              num_sat_blocks)

\* start_block and start_data_block are 0 in every caller
read_sat_table(p, partition_size, block_size, sk, save_start, bitmap, bitmap_size) ==
    LET fail(e, b, sb) == [res |-> e, bitmap |-> b, start_block |-> sb, start_data_block |-> 0]
        h == read_from_partition(p, save_start, 0, SAT_HEADER_SIZE, sk)
        c == calc_num_blocks(HdrDataSize(h.dst), block_size, sk)
        i == convert_address_to_block_index(save_start, partition_size, block_size)
        s == set_bitmap(i.index, bitmap, bitmap_size)
    IN IF partition_size = 0 \/ block_size = 0 \/ bitmap_size = 0
       THEN fail(SLINGA_INVALID_PARAMETER, bitmap, 0)
       ELSE IF block_size % MIN_BLOCK_SIZE # 0 THEN fail(SLINGA_INVALID_PARAMETER, bitmap, 0)
       ELSE IF partition_size % block_size # 0 THEN fail(SLINGA_INVALID_PARAMETER, bitmap, 0)
       ELSE IF h.res # SLINGA_SUCCESS THEN fail(h.res, bitmap, 0)
       ELSE IF c.res # SLINGA_SUCCESS THEN fail(c.res, bitmap, 0)
       ELSE IF c.n > bitmap_size * 8 THEN fail(SLINGA_SAT_SAVE_OUT_OF_RANGE, bitmap, 0)
       ELSE IF i.res # SLINGA_SUCCESS THEN fail(i.res, bitmap, 0)
       ELSE IF s.res # SLINGA_SUCCESS THEN fail(s.res, bitmap, i.index)
       ELSE SatTableLoop(i.index, s.bitmap, bitmap_size, p, partition_size, block_size, sk,
                         i.index, 0, 1, c.n)

(***************************************************************************)
(* Save payload reader.  `buf` is what has been copied into the caller's   *)
(* buffer so far (bytes_written = Len(buf)).                               *)
(***************************************************************************)
\* the for loop that skips the SAT entries up to and including 0x0000:
\* the offset behind the terminator, or `offset` when the block has none
RECURSIVE SkipEntries(_, _, _, _, _, _)
SkipEntries(i, offset, block_data_size, base, p, sk) ==
    IF i >= block_data_size THEN offset
    ELSE IF U16Val(read_from_partition(p, base, i + SAT_TAG_SIZE, 2, sk).dst) = 0 THEN i + 2
    ELSE SkipEntries(i + 2, offset, block_data_size, base, p, sk)

RECURSIVE ReadSaveLoop(_, _, _, _, _, _, _, _, _, _, _)
ReadSaveLoop(cur_sat_block, buf, size, start_block, start_data_block, bitmap, bitmap_size, p, partition_size, block_size, sk) ==
    LET block_data_size == (IF sk = 0 THEN block_size ELSE block_size \div 2) - SAT_TAG_SIZE
        bytes_written == Len(buf)
        done(b) == [res |-> IF Len(b) = size THEN SLINGA_SUCCESS ELSE SLINGA_SAT_INVALID_READ_SIZE,
                    buffer |-> b, bytes_read |-> Len(b), set |-> TRUE]
        fail(e, b) == [res |-> e, buffer |-> b, bytes_read |-> 0, set |-> FALSE]
        next(c, b) ==
            LET g == get_next_block_bitmap(c, bitmap, bitmap_size)
            IN IF g.res = SLINGA_NOT_FOUND THEN done(b)
               ELSE IF g.res # SLINGA_SUCCESS THEN fail(g.res, b)
               ELSE ReadSaveLoop(g.next, b, size, start_block, start_data_block, bitmap,
                                 bitmap_size, p, partition_size, block_size, sk)
        a == convert_block_index_to_address(cur_sat_block, partition_size, block_size, sk)
    IN IF a.res # SLINGA_SUCCESS THEN fail(a.res, buf)
       ELSE IF cur_sat_block # start_block /\ cur_sat_block # start_data_block
       THEN \* a block of save data only
            LET bytes_to_copy == Min(size - bytes_written, block_data_size)
                r == read_from_partition(p, a.address, SAT_TAG_SIZE, bytes_to_copy, sk)
            IN IF r.res # SLINGA_SUCCESS THEN fail(r.res, buf)
               ELSE next(cur_sat_block, buf \o r.dst)
       ELSE IF cur_sat_block = start_data_block
       THEN \* the block that holds the end of the SAT table
            LET offset0 == IF cur_sat_block = start_block THEN SAT_HEADER_SIZE - SAT_TAG_SIZE ELSE 0
                offset1 == SkipEntries(offset0, offset0, block_data_size, a.address, p, sk)
                g == get_next_block_bitmap(cur_sat_block, bitmap, bitmap_size)
                a2 == convert_block_index_to_address(g.next, partition_size, block_size, sk)
                rolled == offset1 = block_data_size
                cur2 == IF rolled /\ g.res = SLINGA_SUCCESS THEN g.next ELSE cur_sat_block
                block == IF rolled THEN a2.address ELSE a.address
                offset == IF rolled THEN 0 ELSE offset1
                bytes_to_copy == IF size - bytes_written < block_data_size - offset
                                 THEN size - bytes_written
                                 ELSE block_data_size - offset
                r == read_from_partition(p, block, offset + SAT_TAG_SIZE, bytes_to_copy, sk)
            IN IF rolled /\ g.res = SLINGA_NOT_FOUND THEN done(buf)
               ELSE IF rolled /\ a2.res # SLINGA_SUCCESS THEN fail(a2.res, buf)
               ELSE IF bytes_to_copy > block_data_size THEN fail(SLINGA_SAT_INVALID_SIZE, buf)
               ELSE IF bytes_written + bytes_to_copy > size THEN fail(SLINGA_SAT_INVALID_SIZE, buf)
               ELSE IF r.res # SLINGA_SUCCESS THEN fail(r.res, buf)
               ELSE next(cur2, buf \o r.dst)
       ELSE next(cur_sat_block, buf)

read_save_from_sat_table(size, start_block, start_data_block, bitmap, bitmap_size, p, partition_size, block_size, sk) ==
    IF size = 0 \/ start_block = 0 \/ start_data_block = 0 \/ bitmap_size = 0
       \/ partition_size = 0 \/ block_size = 0
    THEN [res |-> SLINGA_INVALID_PARAMETER, buffer |-> <<>>, bytes_read |-> 0, set |-> FALSE]
    ELSE IF sk # 0 /\ sk # 1
    THEN [res |-> SLINGA_INVALID_PARAMETER, buffer |-> <<>>, bytes_read |-> 0, set |-> FALSE]
    ELSE ReadSaveLoop(start_data_block, <<>>, size, start_block, start_data_block, bitmap,
                      bitmap_size, p, partition_size, block_size, sk)

\* what sat_read and sat_query_file leave in their outputs
NoMetadata == [savename |-> <<>>, filename |-> <<>>, comment |-> <<>>, language |-> 0,
               timestamp |-> 0, data_size |-> 0]

read_save_and_metadata(p, partition_size, block_size, sk, want_metadata, filename, want_buffer, size) ==
    LET out(e, b, n, m) == [res |-> e, buffer |-> b, bytes_read |-> n, metadata |-> m]
        f == find_save(filename, p, partition_size, block_size, sk)
        h == read_from_partition(p, f.save_start, 0, SAT_HEADER_SIZE, sk)
        bs == get_bitmap_size(partition_size, block_size, SAT_MAX_BITMAP)
        t == read_sat_table(p, partition_size, block_size, sk, f.save_start,
                            ZeroBitmap(bs.bitmap_size), bs.bitmap_size)
        d == read_save_from_sat_table(size, t.start_block, t.start_data_block, t.bitmap,
                                      bs.bitmap_size, p, partition_size, block_size, sk)
        m == IF want_metadata THEN copy_metadata(p, f.save_start, sk) ELSE NoMetadata
    IN IF f.res # SLINGA_SUCCESS THEN out(f.res, <<>>, 0, NoMetadata)
       ELSE IF h.res # SLINGA_SUCCESS THEN out(h.res, <<>>, 0, NoMetadata)
       ELSE IF ~want_buffer THEN out(SLINGA_SUCCESS, <<>>, 0, m)
       ELSE IF HdrDataSize(h.dst) < size THEN out(SLINGA_BUFFER_TOO_SMALL, <<>>, 0, NoMetadata)
       ELSE IF bs.res # SLINGA_SUCCESS THEN out(bs.res, <<>>, 0, NoMetadata)
       ELSE IF t.res # SLINGA_SUCCESS THEN out(t.res, <<>>, 0, NoMetadata)
       ELSE IF d.res # SLINGA_SUCCESS THEN out(d.res, d.buffer, d.bytes_read, NoMetadata)
       ELSE out(SLINGA_SUCCESS, d.buffer, d.bytes_read, m)

sat_query_file(filename, p, partition_size, block_size, sk) ==
    read_save_and_metadata(p, partition_size, block_size, sk, TRUE, filename, FALSE, 0)

sat_read(filename, size, p, partition_size, block_size, sk) ==
    read_save_and_metadata(p, partition_size, block_size, sk, FALSE, filename, TRUE, size)

(***************************************************************************)
(* Partition walkers                                                       *)
(***************************************************************************)
RECURSIVE WalkLoop(_, _, _, _, _, _, _, _, _)
WalkLoop(i, p, partition_size, block_size, sk, want_saves, num_saves, saves, blocks_found) ==
    IF i >= partition_size
    THEN [res |-> SLINGA_SUCCESS, saves |-> saves, saves_found |-> Len(saves),
          used_blocks |-> blocks_found, set |-> TRUE]
    ELSE LET h == read_from_partition(p, i, 0, SAT_HEADER_SIZE, sk)
             c == calc_num_blocks(HdrDataSize(h.dst), block_size, sk)
             early(e) == [res |-> e, saves |-> saves, saves_found |-> 0, used_blocks |-> 0,
                          set |-> FALSE]
         IN IF h.res # SLINGA_SUCCESS THEN early(h.res)
            ELSE IF HdrTag(h.dst) # SAT_START_BLOCK_TAG
            THEN WalkLoop(i + block_size, p, partition_size, block_size, sk, want_saves,
                          num_saves, saves, blocks_found)
            ELSE IF c.res # SLINGA_SUCCESS THEN early(SLINGA_SAT_INVALID_PARTITION)
            ELSE IF want_saves /\ Len(saves) >= num_saves THEN early(SLINGA_BUFFER_TOO_SMALL)
            ELSE WalkLoop(i + block_size, p, partition_size, block_size, sk, want_saves,
                          num_saves, Append(saves, copy_metadata(p, i, sk)), blocks_found + c.n)

\* saves_found counts the start tags; the saves array is filled only when the
\* caller passed one (want_saves)
walk_partition(p, partition_size, block_size, sk, want_saves, num_saves) ==
    IF partition_size = 0 \/ block_size = 0
    THEN [res |-> SLINGA_INVALID_PARAMETER, saves |-> <<>>, saves_found |-> 0, used_blocks |-> 0,
          set |-> FALSE]
    ELSE IF block_size > partition_size \/ partition_size % block_size # 0
    THEN [res |-> SLINGA_INVALID_PARAMETER, saves |-> <<>>, saves_found |-> 0, used_blocks |-> 0,
          set |-> FALSE]
    ELSE WalkLoop(2 * block_size, p, partition_size, block_size, sk, want_saves, num_saves,
                  <<>>, 0)

sat_get_used_blocks(p, partition_size, block_size, sk) ==
    walk_partition(p, partition_size, block_size, sk, FALSE, 0)

\* a listing that only counts, whatever array it is given
sat_list_saves_counting(p, partition_size, block_size, sk, want_saves, num_saves) ==
    walk_partition(p, partition_size, block_size, sk, FALSE, num_saves)

sat_list_saves(p, partition_size, block_size, sk, want_saves, num_saves) ==
    walk_partition(p, partition_size, block_size, sk, want_saves, num_saves)

RECURSIVE WalkBitmapLoop(_, _, _, _, _, _, _)
WalkBitmapLoop(i, bitmap, bitmap_size, p, partition_size, block_size, sk) ==
    IF i >= partition_size THEN [res |-> SLINGA_SUCCESS, bitmap |-> bitmap]
    ELSE LET tag == read_from_partition(p, i, 0, SAT_TAG_SIZE, sk)
             t == read_sat_table(p, partition_size, block_size, sk, i, bitmap, bitmap_size)
         IN IF tag.res # SLINGA_SUCCESS THEN [res |-> tag.res, bitmap |-> bitmap]
            ELSE IF tag.dst # SAT_START_BLOCK_TAG
            THEN WalkBitmapLoop(i + block_size, bitmap, bitmap_size, p, partition_size,
                                block_size, sk)
            ELSE IF t.res # SLINGA_SUCCESS THEN [res |-> t.res, bitmap |-> t.bitmap]
            ELSE WalkBitmapLoop(i + block_size, t.bitmap, bitmap_size, p, partition_size,
                                block_size, sk)

\* a walk that does not mark blocks 0 and 1 busy
walk_partition_bitmap_unreserved(bitmap, bitmap_size, p, partition_size, block_size, sk) ==
    WalkBitmapLoop(2 * block_size, bitmap, bitmap_size, p, partition_size, block_size, sk)

walk_partition_bitmap(bitmap, bitmap_size, p, partition_size, block_size, sk) ==
    LET s0 == set_bitmap(0, bitmap, bitmap_size)
        s1 == set_bitmap(1, s0.bitmap, bitmap_size)
    IN IF bitmap_size = 0 THEN [res |-> SLINGA_INVALID_PARAMETER, bitmap |-> bitmap]
       ELSE IF partition_size = 0 \/ block_size = 0
       THEN [res |-> SLINGA_INVALID_PARAMETER, bitmap |-> bitmap]
       ELSE IF block_size > partition_size \/ partition_size % block_size # 0
       THEN [res |-> SLINGA_INVALID_PARAMETER, bitmap |-> bitmap]
       ELSE IF s0.res # SLINGA_SUCCESS THEN [res |-> s0.res, bitmap |-> s0.bitmap]
       ELSE IF s1.res # SLINGA_SUCCESS THEN [res |-> s1.res, bitmap |-> s1.bitmap]
       ELSE WalkBitmapLoop(2 * block_size, s1.bitmap, bitmap_size, p, partition_size,
                           block_size, sk)

(***************************************************************************)
(* Save writer                                                             *)
(***************************************************************************)
NULL_METADATA == [null |-> TRUE]

write_header(save_start_block, filename, size, metadata, p, partition_size, block_size, sk) ==
    LET header == metadata_to_header([metadata EXCEPT !.data_size = size])
        a == convert_block_index_to_address(save_start_block, partition_size, block_size, sk)
        w == write_to_partition(p, a.address, 0, header, SAT_HEADER_SIZE, sk)
    IN IF filename = NULL \/ size = 0 \/ metadata = NULL_METADATA
       THEN [res |-> SLINGA_INVALID_PARAMETER, part |-> p]
       ELSE IF partition_size = 0 \/ block_size = 0
       THEN [res |-> SLINGA_INVALID_PARAMETER, part |-> p]
       ELSE IF a.res # SLINGA_SUCCESS THEN [res |-> a.res, part |-> p]
       ELSE w

\* the for loop of write_block_indexes over the entries of one block; st is
\* [part, offset, indexes_written, highest_index_written]
RECURSIVE IndexEntryLoop(_, _, _, _, _, _, _)
IndexEntryLoop(st, base, limit, num_blocks, bitmap, bitmap_size, sk) ==
    IF st.offset >= limit THEN [res |-> SLINGA_SUCCESS, st |-> st]
    ELSE LET iw == st.indexes_written + 1
             g == get_next_block_bitmap(st.highest_index_written, bitmap, bitmap_size)
             index == IF iw = num_blocks THEN 0 ELSE g.next % 65536
             w == write_to_partition(st.part, base, st.offset, U16Bytes(index), 2, sk)
             st1 == [part |-> w.part, offset |-> st.offset, indexes_written |-> iw,
                     highest_index_written |->
                         IF iw = num_blocks THEN st.highest_index_written ELSE index]
         IN IF iw # num_blocks /\ g.res # SLINGA_SUCCESS
            THEN [res |-> g.res, st |-> [st EXCEPT !.indexes_written = iw]]
            ELSE IF w.res # SLINGA_SUCCESS THEN [res |-> w.res, st |-> st1]
            ELSE IF iw >= num_blocks
            THEN [res |-> SLINGA_SUCCESS, st |-> [st1 EXCEPT !.offset = @ + 2]]
            ELSE IndexEntryLoop([st1 EXCEPT !.offset = @ + 2], base, limit, num_blocks,
                                bitmap, bitmap_size, sk)

RECURSIVE IndexBlockLoop(_, _, _, _, _, _, _, _, _, _)

\* the end of one pass of the while loop of write_block_indexes: e is what
\* the for loop over the entries of block cur_block_index returned
IndexBlockNext(e, cur_block_index, save_start_block, num_blocks, bitmap, bitmap_size, partition_size, block_size, adjusted_block_size, sk) ==
    LET g == get_next_block_bitmap(cur_block_index, bitmap, bitmap_size)
    IN IF e.res # SLINGA_SUCCESS THEN [res |-> e.res, st |-> e.st, cur |-> cur_block_index]
       ELSE IF e.st.indexes_written < num_blocks
       THEN IF g.res # SLINGA_SUCCESS
            THEN [res |-> g.res, st |-> e.st, cur |-> cur_block_index]
            ELSE IndexBlockLoop(g.next, e.st, save_start_block, num_blocks, bitmap,
                                bitmap_size, partition_size, block_size,
                                adjusted_block_size, sk)
       ELSE [res |-> SLINGA_SUCCESS, st |-> e.st, cur |-> cur_block_index]

\* the while loop of write_block_indexes over the blocks that hold the table
IndexBlockLoop(cur_block_index, st, save_start_block, num_blocks, bitmap, bitmap_size, partition_size, block_size, adjusted_block_size, sk) ==
    IF st.indexes_written >= num_blocks
    THEN [res |-> SLINGA_SUCCESS, st |-> st, cur |-> cur_block_index]
    ELSE LET a == convert_block_index_to_address(cur_block_index, partition_size, block_size, sk)
             first == cur_block_index = save_start_block
             m == IF first THEN [res |-> SLINGA_SUCCESS, part |-> st.part]
                  ELSE memset_partition(st.part, a.address, 0, 0, SAT_TAG_SIZE, sk)
         IN IF a.res # SLINGA_SUCCESS
            THEN [res |-> a.res, st |-> [st EXCEPT !.offset = 0], cur |-> cur_block_index]
            ELSE IF m.res # SLINGA_SUCCESS
            THEN [res |-> m.res, st |-> [st EXCEPT !.part = m.part], cur |-> cur_block_index]
            ELSE IndexBlockNext(IndexEntryLoop([st EXCEPT !.part = m.part,
                                                          !.offset = IF first THEN SAT_HEADER_SIZE
                                                                     ELSE SAT_TAG_SIZE],
                                               a.address, adjusted_block_size, num_blocks,
                                               bitmap, bitmap_size, sk),
                                cur_block_index, save_start_block, num_blocks, bitmap,
                                bitmap_size, partition_size, block_size, adjusted_block_size,
                                sk)

\* write_block_indexes after its while loop: l is what the loop returned;
\* tells where the save data starts
IndexTableEnd(l, bitmap, bitmap_size, adjusted_block_size) ==
    LET fail(e, q) == [res |-> e, part |-> q, save_data_start_block |-> 0,
                       save_data_start_offset |-> 0]
        g == get_next_block_bitmap(l.cur, bitmap, bitmap_size)
    IN IF l.res # SLINGA_SUCCESS THEN fail(l.res, l.st.part)
       ELSE IF l.st.offset = adjusted_block_size
       THEN \* the terminator filled up the block: data starts in the next one
            IF g.res # SLINGA_SUCCESS THEN fail(g.res, l.st.part)
            ELSE [res |-> SLINGA_SUCCESS, part |-> l.st.part, save_data_start_block |-> g.next,
                  save_data_start_offset |-> SAT_TAG_SIZE]
       ELSE [res |-> SLINGA_SUCCESS, part |-> l.st.part, save_data_start_block |-> l.cur,
             save_data_start_offset |-> l.st.offset]

write_block_indexes(save_start_block, num_blocks, bitmap, bitmap_size, p, partition_size, block_size, sk) ==
    LET fail(e, q) == [res |-> e, part |-> q, save_data_start_block |-> 0,
                       save_data_start_offset |-> 0]
        adjusted_block_size == IF sk = 1 THEN block_size \div 2 ELSE block_size
    IN IF bitmap_size = 0 THEN fail(SLINGA_INVALID_PARAMETER, p)
       ELSE IF partition_size = 0 \/ block_size = 0 THEN fail(SLINGA_INVALID_PARAMETER, p)
       ELSE IF num_blocks = 0 THEN fail(SLINGA_INVALID_PARAMETER, p)
       ELSE IndexTableEnd(IndexBlockLoop(save_start_block,
                                         [part |-> p, offset |-> SAT_HEADER_SIZE,
                                          indexes_written |-> 0,
                                          highest_index_written |-> save_start_block],
                                         save_start_block, num_blocks, bitmap, bitmap_size,
                                         partition_size, block_size, adjusted_block_size, sk),
                          bitmap, bitmap_size, adjusted_block_size)

RECURSIVE WriteDataLoop(_, _, _, _, _, _, _, _, _, _, _, _)
WriteDataLoop(cur_block_index, bytes_written, p, save_data_start_block, save_data_start_offset, data, size, bitmap, bitmap_size, partition_size, block_size, sk) ==
    IF bytes_written >= size THEN [res |-> SLINGA_SUCCESS, part |-> p]
    ELSE LET adjusted_block_size == IF sk = 1 THEN block_size \div 2 ELSE block_size
             a == convert_block_index_to_address(cur_block_index, partition_size, block_size, sk)
             offset == IF cur_block_index = save_data_start_block THEN save_data_start_offset
                       ELSE SAT_TAG_SIZE
             bytes_left == size - bytes_written
             bytes_to_write == Min(adjusted_block_size - offset, bytes_left)
             w == write_to_partition(p, a.address, offset,
                                     SubSeq(data, bytes_written + 1, bytes_written + bytes_to_write),
                                     bytes_to_write, sk)
             g == get_next_block_bitmap(cur_block_index, bitmap, bitmap_size)
         IN IF a.res # SLINGA_SUCCESS THEN [res |-> a.res, part |-> p]
            ELSE IF w.res # SLINGA_SUCCESS THEN [res |-> w.res, part |-> w.part]
            ELSE \* if(bytes_written <= size): asks for the next block after every write
                 IF bytes_written + bytes_to_write <= size /\ g.res # SLINGA_SUCCESS
                 THEN [res |-> g.res, part |-> w.part]
                 ELSE WriteDataLoop(g.next, bytes_written + bytes_to_write, w.part,
                                    save_data_start_block, save_data_start_offset, data, size,
                                    bitmap, bitmap_size, partition_size, block_size, sk)

\* write_data that puts the payload at the start of its first block, over
\* what the block already holds
write_data_over(save_data_start_block, save_data_start_offset, data, size, bitmap, bitmap_size, p, partition_size, block_size, sk) ==
    IF bitmap_size = 0 THEN [res |-> SLINGA_INVALID_PARAMETER, part |-> p]
    ELSE IF partition_size = 0 \/ block_size = 0 THEN [res |-> SLINGA_INVALID_PARAMETER, part |-> p]
    ELSE IF data = NULL \/ size = 0 THEN [res |-> SLINGA_INVALID_PARAMETER, part |-> p]
    ELSE WriteDataLoop(save_data_start_block, 0, p, save_data_start_block,
                       SAT_TAG_SIZE, data, size, bitmap, bitmap_size, partition_size,
                       block_size, sk)

write_data(save_data_start_block, save_data_start_offset, data, size, bitmap, bitmap_size, p, partition_size, block_size, sk) ==
    IF bitmap_size = 0 THEN [res |-> SLINGA_INVALID_PARAMETER, part |-> p]
    ELSE IF partition_size = 0 \/ block_size = 0 THEN [res |-> SLINGA_INVALID_PARAMETER, part |-> p]
    ELSE IF data = NULL \/ size = 0 THEN [res |-> SLINGA_INVALID_PARAMETER, part |-> p]
    ELSE WriteDataLoop(save_data_start_block, 0, p, save_data_start_block,
                       save_data_start_offset, data, size, bitmap, bitmap_size, partition_size,
                       block_size, sk)

(***************************************************************************)
(* Entry points that change the partition                                  *)
(***************************************************************************)
\* a flag test that takes every flag as given
HasFlag_ignored(flags, f) == TRUE

HasFlag(flags, f) == (flags \div f) % 2 = 1

\* sat_write from its call of write_data: wi is what write_block_indexes
\* returned, free the bitmap of the free blocks
sat_write_data(wi, free, bitmap_size, buffer, size, partition_size, block_size, sk) ==
    IF wi.res # SLINGA_SUCCESS THEN [res |-> wi.res, part |-> wi.part]
    ELSE write_data(wi.save_data_start_block, wi.save_data_start_offset, buffer, size, free,
                    bitmap_size, wi.part, partition_size, block_size, sk)

\* sat_write from its call of invert_bitmap: busy is what
\* walk_partition_bitmap returned for the partition p1
sat_write_blocks(busy, blocks_needed, bitmap_size, filename, save_metadata, buffer, size, p1, partition_size, block_size, sk) ==
    LET free == invert_bitmap(busy.bitmap, bitmap_size)
        cnt == count_bitmap(free.bitmap, bitmap_size)
        first == get_next_block_bitmap(0, free.bitmap, bitmap_size)
        wh == write_header(first.next, filename, size, save_metadata, p1, partition_size,
                           block_size, sk)
    IN IF busy.res # SLINGA_SUCCESS THEN [res |-> busy.res, part |-> p1]
       ELSE IF free.res # SLINGA_SUCCESS THEN [res |-> free.res, part |-> p1]
       ELSE IF cnt.res # SLINGA_SUCCESS THEN [res |-> cnt.res, part |-> p1]
       ELSE IF cnt.total < blocks_needed THEN [res |-> SLINGA_NOT_ENOUGH_SPACE, part |-> p1]
       ELSE IF first.res # SLINGA_SUCCESS THEN [res |-> first.res, part |-> p1]
       ELSE IF wh.res # SLINGA_SUCCESS THEN [res |-> wh.res, part |-> wh.part]
       ELSE sat_write_data(write_block_indexes(first.next, blocks_needed, free.bitmap,
                                               bitmap_size, wh.part, partition_size,
                                               block_size, sk),
                           free.bitmap, bitmap_size, buffer, size, partition_size, block_size,
                           sk)

\* sat_write from the result of find_save: f is what find_save returned
sat_write_found(f, flags, filename, save_metadata, buffer, size, p, partition_size, block_size, sk) ==
    LET del == memset_partition(p, f.save_start, 0, 0, SAT_TAG_SIZE, sk)
        \* the partition after the existing save, if any, lost its tag
        p1 == IF f.res = SLINGA_SUCCESS THEN del.part ELSE p
        c == calc_num_blocks(size, block_size, sk)
        bs == get_bitmap_size(partition_size, block_size, SAT_MAX_BITMAP)
    IN IF f.res = SLINGA_SUCCESS /\ ~HasFlag(flags, OVERWRITE_EXISTING_SAVE)
       THEN [res |-> SLINGA_FILE_EXISTS, part |-> p]
       ELSE IF f.res = SLINGA_SUCCESS /\ del.res # SLINGA_SUCCESS
       THEN [res |-> del.res, part |-> del.part]
       ELSE IF c.res # SLINGA_SUCCESS THEN [res |-> c.res, part |-> p1]
       ELSE IF bs.res # SLINGA_SUCCESS THEN [res |-> bs.res, part |-> p1]
       ELSE sat_write_blocks(walk_partition_bitmap(ZeroBitmap(bs.bitmap_size),
                                                   bs.bitmap_size, p1, partition_size,
                                                   block_size, sk),
                             c.n, bs.bitmap_size, filename, save_metadata, buffer, size, p1,
                             partition_size, block_size, sk)

sat_write(flags, filename, save_metadata, buffer, size, p, partition_size, block_size, sk) ==
    IF filename = NULL \/ save_metadata = NULL_METADATA \/ buffer = NULL \/ size = 0
    THEN [res |-> SLINGA_INVALID_PARAMETER, part |-> p]
    ELSE IF partition_size = 0 \/ block_size = 0
    THEN [res |-> SLINGA_INVALID_PARAMETER, part |-> p]
    ELSE IF block_size % MIN_BLOCK_SIZE # 0 THEN [res |-> SLINGA_INVALID_PARAMETER, part |-> p]
    ELSE IF sk # 0 /\ sk # 1 THEN [res |-> SLINGA_INVALID_PARAMETER, part |-> p]
    ELSE sat_write_found(find_save(filename, p, partition_size, block_size, sk), flags,
                         filename, save_metadata, buffer, size, p, partition_size, block_size,
                         sk)

\* sat_delete that clears the whole header of the start block
sat_delete_header(filename, flags, p, partition_size, block_size, sk) ==
    LET f == find_save(filename, p, partition_size, block_size, sk)
    IN IF f.res # SLINGA_SUCCESS THEN [res |-> f.res, part |-> p]
       ELSE memset_partition(p, f.save_start, 0, 0, SAT_HEADER_SIZE, sk)

sat_delete(filename, flags, p, partition_size, block_size, sk) ==
    LET f == find_save(filename, p, partition_size, block_size, sk)
        del == memset_partition(p, f.save_start, 0, 0, SAT_TAG_SIZE, sk)
    IN IF filename = NULL THEN [res |-> SLINGA_INVALID_PARAMETER, part |-> p]
       ELSE IF partition_size = 0 \/ block_size = 0
       THEN [res |-> SLINGA_INVALID_PARAMETER, part |-> p]
       ELSE IF block_size % MIN_BLOCK_SIZE # 0 THEN [res |-> SLINGA_INVALID_PARAMETER, part |-> p]
       ELSE IF sk # 0 /\ sk # 1 THEN [res |-> SLINGA_INVALID_PARAMETER, part |-> p]
       ELSE IF f.res # SLINGA_SUCCESS THEN [res |-> f.res, part |-> p]
       ELSE del

\* the number of 16-byte lines of the signature in block 0
NumLines(block_size, sk) ==
    IF sk = 1 THEN (block_size \div BACKUP_RAM_FORMAT_STR_LEN) \div 2
    ELSE block_size \div BACKUP_RAM_FORMAT_STR_LEN

\* a check that compares the first line of block 0 only
CheckLines_first(i, num_lines, p, sk) ==
    IF read_from_partition(p, 0, 0, BACKUP_RAM_FORMAT_STR_LEN, sk).dst # BACKUP_RAM_FORMAT_STR
    THEN SLINGA_SAT_UNFORMATTED
    ELSE SLINGA_SUCCESS

RECURSIVE CheckLines(_, _, _, _)
CheckLines(i, num_lines, p, sk) ==
    IF i >= num_lines THEN SLINGA_SUCCESS
    ELSE LET r == read_from_partition(p, 0, i * BACKUP_RAM_FORMAT_STR_LEN,
                                      BACKUP_RAM_FORMAT_STR_LEN, sk)
         IN IF r.res # SLINGA_SUCCESS THEN r.res
            ELSE IF r.dst # BACKUP_RAM_FORMAT_STR THEN SLINGA_SAT_UNFORMATTED
            ELSE CheckLines(i + 1, num_lines, p, sk)

sat_check_formatted(p, partition_size, block_size, sk) ==
    IF partition_size = 0 \/ block_size = 0 THEN SLINGA_INVALID_PARAMETER
    ELSE IF block_size % MIN_BLOCK_SIZE # 0 THEN SLINGA_INVALID_PARAMETER
    ELSE IF sk # 0 /\ sk # 1 THEN SLINGA_INVALID_PARAMETER
    ELSE IF block_size > partition_size THEN SLINGA_INVALID_PARAMETER
    ELSE CheckLines(0, NumLines(block_size, sk), p, sk)

RECURSIVE FormatLines(_, _, _, _)
FormatLines(i, num_lines, p, sk) ==
    IF i >= num_lines THEN [res |-> SLINGA_SUCCESS, part |-> p]
    ELSE LET w == write_to_partition(p, 0, i * BACKUP_RAM_FORMAT_STR_LEN, BACKUP_RAM_FORMAT_STR,
                                     BACKUP_RAM_FORMAT_STR_LEN, sk)
         IN IF w.res # SLINGA_SUCCESS THEN w
            ELSE FormatLines(i + 1, num_lines, w.part, sk)

sat_format(p, partition_size, block_size, sk) ==
    LET z == memset_partition(p, 0, 0, 0, partition_size \div 2, sk)
    IN IF partition_size = 0 \/ block_size = 0 THEN [res |-> SLINGA_INVALID_PARAMETER, part |-> p]
       ELSE IF block_size % MIN_BLOCK_SIZE # 0 THEN [res |-> SLINGA_INVALID_PARAMETER, part |-> p]
       ELSE IF sk # 0 /\ sk # 1 THEN [res |-> SLINGA_INVALID_PARAMETER, part |-> p]
       ELSE IF z.res # SLINGA_SUCCESS THEN z
       ELSE FormatLines(0, NumLines(block_size, sk), z.part, sk)

(***************************************************************************)
(* Inputs of the calls                                                     *)
(***************************************************************************)
NameA == <<65>>                                          \* "A"
NameB == <<83, 65, 86, 69, 71, 65, 77, 69, 95, 48, 49>>  \* "SAVEGAME_01"
Names == {NameA, NameB}

\* payload of L bytes: seed, seed + 1, ... (mod 256)
Payload(seed, L) == [i \in 1..L |-> (seed + i - 1) % 256]

\* The saves the callers write: name and payload length.  300 bytes take 6
\* blocks, 800 take 15 with the chain's terminator at the very end of the
\* start block, 850 take 16 with the chain spilling into the second block.
Saves ==
    { [filename |-> NameA, size |-> 800], [filename |-> NameA, size |-> 850],
      [filename |-> NameB, size |-> 300] }

DataOf(s) == Payload(s.size, s.size)

\* what Slinga_SetSaveMetadata builds for the save
MetadataOf(s) ==
    IF s.filename = NameA
    THEN Metadata(NameA, <<104, 105>>, 1, 16909060, s.size)
    ELSE Metadata(NameB, <<48, 49, 50, 51, 52, 53, 54, 55, 56, 57>>, 2, 25303345, s.size)

Call(op, filename, flags, size, data, res, out) ==
    [op |-> op, filename |-> filename, flags |-> flags, size |-> size, data |-> data,
     res |-> res, out |-> out]

NoCall == Call("none", <<>>, 0, 0, <<>>, "", <<>>)

NoRaw == [kind |-> "none", filename |-> <<>>, at |-> 0]

(***************************************************************************)
(* The state machine: the partition of a device and the calls made on it   *)
(***************************************************************************)
\* The medium is persistent: a session finds it blank, or holding the save
\* that an earlier session wrote on the blank medium.
Media(g) ==
    LET blank == Buffer(g.buffer_size, 0)
    IN {blank} \cup
       { sat_write(0, s.filename, MetadataOf(s), DataOf(s), s.size, blank, g.partition_size,
                   g.block_size, g.skip_bytes).part : s \in {[filename |-> NameA, size |-> 800]} }

Init ==
    /\ dev \in Geometries
    /\ part \in Media(dev)
    /\ nops = 0
    /\ last = NoCall
    /\ obs = NoCall
    /\ raw = NoRaw

\* a live save of that name is on the partition p (recorded with the call)
Exists(filename, p) ==
    find_save(filename, p, dev.partition_size, dev.block_size, dev.skip_bytes).res = SLINGA_SUCCESS

\* A call that may change the partition.  The read-only calls change nothing
\* but obs, so a behaviour is explored with its read-only call at the end.
Changes(bound) == nops < bound /\ raw = NoRaw /\ obs = NoCall

Observes == obs = NoCall

Write(bound) ==
    \E s \in Saves, flags \in {0, OVERWRITE_EXISTING_SAVE} :
        /\ Changes(bound)
        /\ \E r \in { sat_write(flags, s.filename, MetadataOf(s), DataOf(s), s.size, part,
                              dev.partition_size, dev.block_size, dev.skip_bytes) } :
              /\ part' = r.part
              /\ last' = Call("sat_write", s.filename, flags, s.size, DataOf(s), r.res,
                              [existed |-> Exists(s.filename, part)])
        /\ nops' = nops + 1
        /\ obs' = NoCall
        /\ UNCHANGED <<dev, raw>>

Delete(bound) ==
    \E filename \in Names :
        /\ Changes(bound)
        /\ \E r \in { sat_delete(filename, 0, part, dev.partition_size, dev.block_size,
                               dev.skip_bytes) } :
              /\ part' = r.part
              /\ last' = Call("sat_delete", filename, 0, 0, <<>>, r.res,
                              [existed |-> Exists(filename, part)])
        /\ nops' = nops + 1
        /\ obs' = NoCall
        /\ UNCHANGED <<dev, raw>>

Format(bound) ==
    /\ Changes(bound)
    /\ \E r \in { sat_format(part, dev.partition_size, dev.block_size, dev.skip_bytes) } :
          /\ part' = r.part
          /\ last' = Call("sat_format", <<>>, 0, 0, <<>>, r.res, <<>>)
    /\ nops' = nops + 1
    /\ obs' = NoCall
    /\ UNCHANGED <<dev, raw>>

Read ==
    \E s \in Saves :
        /\ Observes
        /\ \E r \in { sat_read(s.filename, s.size, part, dev.partition_size, dev.block_size,
                             dev.skip_bytes) } :
              obs' = Call("sat_read", s.filename, 0, s.size, <<>>, r.res,
                          [buffer |-> r.buffer, bytes_read |-> r.bytes_read])
        /\ UNCHANGED <<part, dev, nops, last, raw>>

Query ==
    \E filename \in Names :
        /\ Observes
        /\ \E r \in { sat_query_file(filename, part, dev.partition_size, dev.block_size,
                                   dev.skip_bytes) } :
              obs' = Call("sat_query_file", filename, 0, 0, <<>>, r.res,
                          [metadata |-> r.metadata])
        /\ UNCHANGED <<part, dev, nops, last, raw>>

List ==
    /\ Observes
    /\ \E r \in { sat_list_saves(part, dev.partition_size, dev.block_size, dev.skip_bytes, TRUE,
                               Cardinality(Names)) } :
          obs' = Call("sat_list_saves", <<>>, 0, Cardinality(Names), <<>>, r.res,
                      [saves |-> r.saves, saves_available |-> r.saves_found])
    /\ UNCHANGED <<part, dev, nops, last, raw>>

UsedBlocks ==
    /\ Observes
    /\ \E r \in { sat_get_used_blocks(part, dev.partition_size, dev.block_size, dev.skip_bytes) } :
          obs' = Call("sat_get_used_blocks", <<>>, 0, 0, <<>>, r.res,
                      [used_blocks |-> r.used_blocks])
    /\ UNCHANGED <<part, dev, nops, last, raw>>

CheckFormatted ==
    /\ Observes
    /\ obs' = Call("sat_check_formatted", <<>>, 0, 0, <<>>,
                   sat_check_formatted(part, dev.partition_size, dev.block_size,
                                       dev.skip_bytes), <<>>)
    /\ UNCHANGED <<part, dev, nops, last, raw>>

DoWrite == Write(MaxOps)

DoDelete == Delete(MaxOps)

DoFormat == Format(MaxOps)

Next ==
    \/ DoWrite
    \/ DoDelete
    \/ DoFormat
    \/ Read
    \/ Query
    \/ List
    \/ UsedBlocks
    \/ CheckFormatted

Spec == Init /\ [][Next]_vars

(***************************************************************************)
(* The partition is memory that the caller hands in, and the same medium   *)
(* is written by other programs.  A second state machine lets one such     *)
(* change happen after the calls, and the read-only calls follow it.       *)
(***************************************************************************)
\* the bytes of a block: every other byte of it when skip_bytes = 1
BlockBytes == IF dev.skip_bytes = 1 THEN dev.block_size \div 2 ELSE dev.block_size

\* one byte of block 0 of a formatted partition gets another value
FlipByte ==
    \E i \in 0..(BlockBytes - 1), d \in {1, 128} :
        /\ raw = NoRaw /\ obs = NoCall
        /\ sat_check_formatted(part, dev.partition_size, dev.block_size, dev.skip_bytes)
              = SLINGA_SUCCESS
        /\ part' = Store(part, 0, i,
                         <<(ByteAt(part, PhysAddr(0, 0, i, dev.skip_bytes)) + d) % 256>>, 1,
                         dev.skip_bytes)
        /\ raw' = [kind |-> "flip", filename |-> <<>>, at |-> i]
        /\ UNCHANGED <<dev, nops, last, obs>>

\* entry k of the index chain in the start block of a live save gets the
\* index of the start block itself, or 1
PlantEntry ==
    \E filename \in Names, k \in 0..1, low \in BOOLEAN :
        \E f \in { find_save(filename, part, dev.partition_size, dev.block_size,
                             dev.skip_bytes) } :
            /\ raw = NoRaw /\ obs = NoCall
            /\ f.res = SLINGA_SUCCESS
            /\ U16Val(read_from_partition(part, f.save_start, SAT_HEADER_SIZE + 2 * k, 2,
                                          dev.skip_bytes).dst) # 0
            /\ part' = Store(part, f.save_start, SAT_HEADER_SIZE + 2 * k,
                             U16Bytes(IF low THEN 1 ELSE f.save_start \div dev.block_size), 2,
                             dev.skip_bytes)
            /\ raw' = [kind |-> "plant", filename |-> filename, at |-> SAT_HEADER_SIZE + 2 * k]
            /\ UNCHANGED <<dev, nops, last, obs>>

RawWrite == Write(MaxRawOps)

RawFormat == Format(MaxRawOps)

NextRaw ==
    \/ RawWrite
    \/ RawFormat
    \/ FlipByte
    \/ PlantEntry
    \/ Read
    \/ CheckFormatted

SpecRaw == Init /\ [][NextRaw]_vars

(***************************************************************************)
(* A third state machine makes one write of every payload size, on a blank *)
(* medium and on one that holds a save.                                    *)
(***************************************************************************)
InitSizes ==
    /\ dev \in { g \in Geometries : g.block_size <= g.partition_size }
    /\ part \in Media(dev)
    /\ nops = 0
    /\ last = NoCall
    /\ obs = NoCall
    /\ raw = NoRaw

WriteSized ==
    \E size \in 1..MaxPayload, filename \in Names :
        /\ Changes(1)
        /\ \E r \in { sat_write(OVERWRITE_EXISTING_SAVE, filename,
                              MetadataOf([filename |-> filename, size |-> size]),
                              Payload(size, size), size, part, dev.partition_size,
                              dev.block_size, dev.skip_bytes) } :
              /\ part' = r.part
              /\ last' = Call("sat_write", filename, OVERWRITE_EXISTING_SAVE, size,
                              Payload(size, size), r.res, [existed |-> Exists(filename, part)])
        /\ nops' = nops + 1
        /\ obs' = NoCall
        /\ UNCHANGED <<dev, raw>>

NextSizes == WriteSized

SpecSizes == InitSizes /\ [][NextSizes]_vars

(***************************************************************************)
(* calc_num_blocks, statement by statement.  obs is the frame of the call: *)
(* its arguments are save_size and the block_size and skip_bytes of dev.   *)
(***************************************************************************)
CalcFrame(save_size, pc, fixed_bytes, num_blocks, num_blocks2, res, n) ==
    [op |-> "calc_num_blocks", save_size |-> save_size, pc |-> pc, fixed_bytes |-> fixed_bytes,
     num_blocks |-> num_blocks, num_blocks2 |-> num_blocks2, res |-> res, n |-> n]

InitCalc ==
    /\ \E k \in 1..MaxBlockUnits, sk \in {0, 1} :
          dev = [partition_size |-> NumBlocks * k * MIN_BLOCK_SIZE * (sk + 1),
                 block_size |-> k * MIN_BLOCK_SIZE * (sk + 1), skip_bytes |-> sk,
                 buffer_size |-> NumBlocks * k * MIN_BLOCK_SIZE * (sk + 1)]
    /\ \E save_size \in 1..MaxSaveSize : obs = CalcFrame(save_size, "entry", 0, 0, 0, "", 0)
    /\ part = <<>>
    /\ nops = 0
    /\ last = NoCall
    /\ raw = NoRaw

\* the parameter checks, fixed_bytes and the first estimate of num_blocks
CalcEnter ==
    /\ obs.op = "calc_num_blocks" /\ obs.pc = "entry"
    /\ obs' = IF calc_num_blocks(obs.save_size, dev.block_size, dev.skip_bytes).res
                    # SLINGA_SUCCESS
              THEN [obs EXCEPT !.pc = "done", !.res = SLINGA_INVALID_PARAMETER]
              ELSE [obs EXCEPT !.pc = "loop",
                               !.fixed_bytes = SAT_HEADER_SIZE - SAT_TAG_SIZE + obs.save_size,
                               !.num_blocks = (SAT_HEADER_SIZE - SAT_TAG_SIZE + obs.save_size)
                                                 \div (BlockBytes - SAT_TAG_SIZE)]
    /\ UNCHANGED <<part, dev, nops, last, raw>>

\* one pass of the do-while loop and its test
CalcPass ==
    /\ obs.op = "calc_num_blocks" /\ obs.pc = "loop"
    /\ \E n2 \in { CalcStep(obs.num_blocks2, obs.fixed_bytes, BlockBytes - SAT_TAG_SIZE) } :
          obs' = [obs EXCEPT !.num_blocks = obs.num_blocks2, !.num_blocks2 = n2,
                             !.pc = IF obs.num_blocks2 # n2 THEN "loop" ELSE "return"]
    /\ UNCHANGED <<part, dev, nops, last, raw>>

CalcReturn ==
    /\ obs.op = "calc_num_blocks" /\ obs.pc = "return"
    /\ obs' = [obs EXCEPT !.pc = "done", !.res = SLINGA_SUCCESS, !.n = obs.num_blocks]
    /\ UNCHANGED <<part, dev, nops, last, raw>>

NextCalc ==
    \/ CalcEnter
    \/ CalcPass
    \/ CalcReturn

\* the function runs to its end once called
SpecCalc == InitCalc /\ [][NextCalc]_vars /\ WF_vars(NextCalc)

(***************************************************************************)
(* Listing into an array of any capacity, or counting with a null array.   *)
(* The caller's saves_available variable holds `before` when the call is   *)
(* made and keeps it when the function does not store into it.             *)
(***************************************************************************)
ListInto ==
    \E want_saves \in BOOLEAN, num_saves \in 0..Cardinality(Names),
       before \in 0..Cardinality(Names) :
        /\ Observes
        /\ \E r \in { sat_list_saves(part, dev.partition_size, dev.block_size, dev.skip_bytes,
                                   want_saves, num_saves) } :
              obs' = Call("sat_list_saves", <<>>, 0, num_saves, <<>>, r.res,
                          [saves |-> IF want_saves THEN r.saves ELSE <<>>,
                           saves_available |-> IF r.set THEN r.saves_found ELSE before,
                           want_saves |-> want_saves, before |-> before])
        /\ UNCHANGED <<part, dev, nops, last, raw>>

ListWrite == Write(MaxListOps)

ListDelete == Delete(MaxListOps)

NextList ==
    \/ ListWrite
    \/ ListDelete
    \/ ListInto

SpecList == Init /\ [][NextList]_vars

(***************************************************************************)
(* Calls with parameters that do not describe the medium.  The medium was  *)
(* written with the parameters g of its device; the caller passes dev.     *)
(* Only parameters whose reads stay inside the memory behind partition_buf *)
(* are drawn.                                                              *)
(***************************************************************************)
Passed(g) ==
    { g,
      [g EXCEPT !.partition_size = 0],
      [g EXCEPT !.block_size = 0],
      [g EXCEPT !.block_size = MIN_BLOCK_SIZE + (MIN_BLOCK_SIZE \div 2)],
      [g EXCEPT !.skip_bytes = 2],
      [g EXCEPT !.partition_size = @ - (g.block_size \div 2)] }
    \cup (IF g.skip_bytes = 1
          THEN { [g EXCEPT !.block_size = @ \div 2, !.partition_size = @ - g.block_size] }
          ELSE {})

InitParams ==
    /\ \E g \in { x \in Geometries : x.block_size <= x.partition_size } :
          /\ part \in Media(g)
          /\ dev \in Passed(g)
    /\ nops = 0
    /\ last = NoCall
    /\ obs = NoCall
    /\ raw = NoRaw

\* sat_write with every argument given, or with one of them null or zero
ParamWrite ==
    \E s \in Saves, flags \in {0, OVERWRITE_EXISTING_SAVE},
       missing \in {"none", "filename", "save_metadata", "buffer", "size"} :
        /\ Changes(1)
        /\ \E r \in { sat_write(flags,
                              IF missing = "filename" THEN NULL ELSE s.filename,
                              IF missing = "save_metadata" THEN NULL_METADATA ELSE MetadataOf(s),
                              IF missing = "buffer" THEN NULL ELSE DataOf(s),
                              IF missing = "size" THEN 0 ELSE s.size,
                              part, dev.partition_size, dev.block_size, dev.skip_bytes) } :
              /\ part' = r.part
              /\ last' = Call("sat_write", s.filename, flags, s.size, DataOf(s), r.res,
                              [missing |-> missing])
        /\ nops' = nops + 1
        /\ obs' = NoCall
        /\ UNCHANGED <<dev, raw>>

ParamDelete ==
    \E filename \in Names \cup {NULL} :
        /\ Changes(1)
        /\ \E r \in { sat_delete(filename, 0, part, dev.partition_size, dev.block_size,
                               dev.skip_bytes) } :
              /\ part' = r.part
              /\ last' = Call("sat_delete", filename, 0, 0, <<>>, r.res, <<>>)
        /\ nops' = nops + 1
        /\ obs' = NoCall
        /\ UNCHANGED <<dev, raw>>

ParamFormat == Format(1)

NextParams ==
    \/ ParamWrite
    \/ ParamDelete
    \/ ParamFormat

SpecParams == InitParams /\ [][NextParams]_vars

(***************************************************************************)
(* Media with a history.  An earlier session formatted the medium, wrote   *)
(* two saves and may have deleted the first, which leaves a free block in  *)
(* front of the second save: the next save written is split around it.     *)
(* On the fourth medium that has already happened.                         *)
(***************************************************************************)
WriteOn(p, g, filename, size) ==
    sat_write(0, filename, MetadataOf([filename |-> filename, size |-> size]),
              Payload(size, size), size, p, g.partition_size, g.block_size, g.skip_bytes).part

DeleteOn(p, g, filename) ==
    sat_delete(filename, 0, p, g.partition_size, g.block_size, g.skip_bytes).part

FormatOn(p, g) == sat_format(p, g.partition_size, g.block_size, g.skip_bytes).part

\* "SAVEGAME_01" in blocks 2 and 4 around the one-block save "A" in block 3:
\* both were written with 10 bytes, then the first was deleted and written
\* again with 60 bytes
SplitMedium(g) ==
    WriteOn(DeleteOn(WriteOn(WriteOn(FormatOn(Buffer(g.buffer_size, 0), g), g, NameB, 10), g,
                             NameA, 10), g, NameB), g, NameB, 60)

\* the same medium when the 60 bytes of "SAVEGAME_01" are all zero, as in a
\* save file that was cleared
ClearedSplitMedium(g) ==
    sat_write(0, NameB, MetadataOf([filename |-> NameB, size |-> 60]), [i \in 1..60 |-> 0], 60,
              DeleteOn(WriteOn(WriteOn(FormatOn(Buffer(g.buffer_size, 0), g), g, NameB, 10), g,
                               NameA, 10), g, NameB),
              g.partition_size, g.block_size, g.skip_bytes).part

LongMedia(g) ==
    { FormatOn(Buffer(g.buffer_size, 0), g),
      ClearedSplitMedium(g),
      WriteOn(WriteOn(FormatOn(Buffer(g.buffer_size, 0), g), g, NameA, 10), g, NameB, 250),
      DeleteOn(WriteOn(WriteOn(FormatOn(Buffer(g.buffer_size, 0), g), g, NameA, 10), g, NameB,
                       250), g, NameA),
      SplitMedium(g) }

InitLong ==
    /\ dev \in { g \in Geometries : g.block_size <= g.partition_size }
    /\ part \in LongMedia(dev)
    /\ nops = 0
    /\ last = NoCall
    /\ obs = NoCall
    /\ raw = NoRaw

LongWrite == Write(MaxLongOps)

LongDelete == Delete(MaxLongOps)

\* a save of 900 bytes: 17 blocks of 64 bytes, so its chain has an entry in
\* its second block
LargeSave == [filename |-> NameA, size |-> 900]

LongWriteLarge ==
    \E flags \in {0, OVERWRITE_EXISTING_SAVE} :
        /\ Changes(MaxLongOps)
        /\ \E r \in { sat_write(flags, LargeSave.filename, MetadataOf(LargeSave),
                                DataOf(LargeSave), LargeSave.size, part, dev.partition_size,
                                dev.block_size, dev.skip_bytes) } :
              /\ part' = r.part
              /\ last' = Call("sat_write", LargeSave.filename, flags, LargeSave.size,
                              DataOf(LargeSave), r.res,
                              [existed |-> Exists(LargeSave.filename, part)])
        /\ nops' = nops + 1
        /\ obs' = NoCall
        /\ UNCHANGED <<dev, raw>>

NextLong ==
    \/ LongWrite
    \/ LongWriteLarge
    \/ LongDelete
    \/ List
    \/ Query

SpecLong == InitLong /\ [][NextLong]_vars

(***************************************************************************)
(* Action Replay: src/devices/action_replay.c.  The compressed partition   *)
(* is memory `mem` (a sequence of bytes, mem[i + 1] is src[i]) of which    *)
(* the first src_size bytes are the source; what lies behind them is       *)
(* whatever the cartridge holds there.                                     *)
(***************************************************************************)
\* "RLE01"
RLE01_MAGIC == <<82, 76, 69, 48, 49>>

\* dest[j] = val for a destination that is null or the bytes written so far
PutByte(dest, j, val) ==
    IF dest = NULL THEN NULL
    ELSE IF j < Len(dest) THEN [dest EXCEPT ![j + 1] = val]
    ELSE Append(dest, val)

\* the inner do-while loop: dest[j] = val, count times from j on
PutRun(dest, j, val, count) ==
    IF dest = NULL THEN NULL
    ELSE SubSeq(dest, 1, j) \o [k \in 1..count |-> val]

RECURSIVE RleLoop_swapped(_, _, _, _, _, _)
\* a decoder that takes the value before the count
RleLoop_swapped(rle_key, mem, src_size, i, j, dest) ==
    IF mem[i + 1] = rle_key /\ mem[i + 3] # 0
    THEN IF src_size <= i + 3
         THEN [res |-> 0, dest |-> PutRun(dest, j, mem[i + 2], mem[i + 3]),
               bytes_needed |-> j + mem[i + 3], i |-> i + 3]
         ELSE RleLoop_swapped(rle_key, mem, src_size, i + 3, j + mem[i + 3],
                              PutRun(dest, j, mem[i + 2], mem[i + 3]))
    ELSE IF src_size <= i + 1
         THEN [res |-> 0, dest |-> PutByte(dest, j, mem[i + 1]), bytes_needed |-> j + 1,
               i |-> i + 1]
         ELSE RleLoop_swapped(rle_key, mem, src_size, i + 1, j + 1,
                              PutByte(dest, j, mem[i + 1]))

RECURSIVE RleLoop(_, _, _, _, _, _)
\* the end-of-input test at the bottom of the loop
RleNext(rle_key, mem, src_size, i, j, dest) ==
    IF src_size <= i THEN [res |-> 0, dest |-> dest, bytes_needed |-> j, i |-> i]
    ELSE RleLoop(rle_key, mem, src_size, i, j, dest)

\* one pass of the do-while loop, entered with the cursors i and j
RleLoop(rle_key, mem, src_size, i, j, dest) ==
    IF mem[i + 1] = rle_key
    THEN IF mem[i + 2] % 256 = 0
         THEN RleNext(rle_key, mem, src_size, i + 2, j + 1, PutByte(dest, j, rle_key))
         ELSE RleNext(rle_key, mem, src_size, i + 3, j + (mem[i + 2] % 256),
                      PutRun(dest, j, mem[i + 3], mem[i + 2] % 256))
    ELSE RleNext(rle_key, mem, src_size, i + 1, j + 1, PutByte(dest, j, mem[i + 1]))

\* dest is NULL or the (empty) destination buffer
decompress_RLE01(rle_key, mem, src_size, dest) ==
    IF mem = NULL THEN [res |-> -1, dest |-> dest, bytes_needed |-> 0, i |-> 0]
    ELSE RleLoop(rle_key, mem, src_size, 0, 0, dest)

NoPartition(res) ==
    [res |-> res, partition_buf |-> NULL, partition_size |-> 0, block_size |-> 0, skip_bytes |-> 0]

\* decompress_partition from its second call of decompress_RLE01
decompress_partition_second(d2) ==
    IF d2.res < 0 THEN NoPartition(SLINGA_ACTION_REPLAY_FAILED_DECOMPRESS_2)
    ELSE [res |-> SLINGA_SUCCESS, partition_buf |-> d2.dest, partition_size |-> d2.bytes_needed,
          block_size |-> ACTION_REPLAY_BLOCK_SIZE, skip_bytes |-> 0]

\* decompress_partition from its first call of decompress_RLE01
decompress_partition_first(d1, rle_key, stream, stream_size) ==
    IF d1.res < 0 THEN NoPartition(SLINGA_ACTION_REPLAY_FAILED_DECOMPRESS_1)
    ELSE IF d1.bytes_needed > ACTION_REPLAY_UNCOMPRESSED_MAX_SIZE
    THEN NoPartition(SLINGA_ACTION_REPLAY_PARTITION_TOO_LARGE)
    ELSE decompress_partition_second(decompress_RLE01(rle_key, stream, stream_size, <<>>))

\* mem is NULL for a null src.  dest and dest_size are the function's locals
\* as initialised, NULL and 0, when the parameters are checked.
decompress_partition(mem, src_size) ==
    LET dest == NULL
        dest_size == 0
        compressed_size == U32Val(SubSeq(mem, 7, 10))
        stream == SubSeq(mem, RLE01_HEADER_SIZE + 1, Len(mem))
    IN IF mem = NULL \/ src_size = 0 \/ dest = NULL \/ dest_size = 0
       THEN NoPartition(SLINGA_INVALID_PARAMETER)
       ELSE IF src_size < RLE01_HEADER_SIZE THEN NoPartition(SLINGA_INVALID_PARAMETER)
       ELSE IF SubSeq(mem, 1, 5) # RLE01_MAGIC
       THEN NoPartition(SLINGA_ACTION_REPLAY_UNSUPPORTED_COMPRESSION)
       ELSE IF compressed_size >= src_size \/ compressed_size < RLE01_HEADER_SIZE
       THEN NoPartition(SLINGA_ACTION_REPLAY_CORRUPT_COMPRESSION_HEADER)
       ELSE decompress_partition_first(
                decompress_RLE01(mem[6], stream, compressed_size - RLE01_HEADER_SIZE, NULL),
                mem[6], stream, compressed_size - RLE01_HEADER_SIZE)

(***************************************************************************)
(* The decoder and the partition decompressor applied to every stream of   *)
(* up to MaxStream bytes.  obs is the frame: a stream to decode, then the  *)
(* result of the pass with a null destination and of the pass that writes, *)
(* or the result of decompress_partition on the stream behind a header.    *)
(***************************************************************************)
RleBytes == {0, 3, 66, 170}

RleKeys == {0, 170}

Streams == UNION { [1..n -> RleBytes] : n \in 0..MaxStream }

\* what the memory behind the source may hold
Behind == [1..3 -> {0, 3}]

NoPass == [res |-> 0, dest |-> NULL, bytes_needed |-> 0, i |-> 0]

InitRle ==
    /\ \E rle_key \in RleKeys, src \in Streams :
          obs = [op |-> "stream", rle_key |-> rle_key, src |-> src, behind |-> <<>>,
                 sized |-> NoPass, written |-> NoPass]
    /\ part = <<>>
    /\ dev = [partition_size |-> 0, block_size |-> ACTION_REPLAY_BLOCK_SIZE, skip_bytes |-> 0,
              buffer_size |-> 0]
    /\ nops = 0
    /\ last = NoCall
    /\ raw = NoRaw

\* the pass with a null destination
RleSize ==
    \E behind \in Behind :
        /\ obs.op = "stream"
        /\ \E r \in { decompress_RLE01(obs.rle_key, obs.src \o behind, Len(obs.src), NULL) } :
              obs' = [obs EXCEPT !.op = "sized", !.behind = behind, !.sized = r]
        /\ UNCHANGED <<part, dev, nops, last, raw>>

\* the pass that writes, over the same memory
RleWrite ==
    /\ obs.op = "sized"
    /\ \E r \in { decompress_RLE01(obs.rle_key, obs.src \o obs.behind, Len(obs.src), <<>>) } :
          obs' = [obs EXCEPT !.op = "decompress_RLE01", !.written = r]
    /\ UNCHANGED <<part, dev, nops, last, raw>>

\* decompress_partition of a header followed by the stream; src_size counts
\* the header, the stream and `extra` bytes of what lies behind
DecompressPartition ==
    \E magic \in {RLE01_MAGIC, <<68, 69, 70, 48, 49>>}, behind \in Behind, extra \in 0..1,
       compressed_size \in {0, RLE01_HEADER_SIZE - 1, RLE01_HEADER_SIZE + Len(obs.src),
                            RLE01_HEADER_SIZE + Len(obs.src) + 1} :
        /\ obs.op = "stream"
        /\ \E mem \in { magic \o <<obs.rle_key>> \o U32Bytes(compressed_size) \o obs.src
                          \o behind } :
           \E r \in { decompress_partition(mem, RLE01_HEADER_SIZE + Len(obs.src) + extra) } :
              obs' = [op |-> "decompress_partition", rle_key |-> obs.rle_key, src |-> obs.src,
                      behind |-> behind, magic |-> magic, compressed_size |-> compressed_size,
                      src_size |-> RLE01_HEADER_SIZE + Len(obs.src) + extra, res |-> r.res,
                      partition |-> r]
        /\ UNCHANGED <<part, dev, nops, last, raw>>

NextRle ==
    \/ RleSize
    \/ RleWrite
    \/ DecompressPartition

SpecRle == InitRle /\ [][NextRle]_vars

(***************************************************************************)
(* A seventh state machine adds a third save to media on which two saves  *)
(* share the space: every call finds its free blocks with the busy bitmap  *)
(* that walk_partition_bitmap builds from the saves already there.         *)
(***************************************************************************)
NameC == <<67>>                                          \* "C"

\* the third save: 10 bytes take one block, 100 bytes take three
ThirdSaves == { [filename |-> NameC, size |-> 10], [filename |-> NameC, size |-> 100] }

ThirdMetadata(s) == Metadata(s.filename, <<>>, 0, 0, s.size)

\* the medium with the cleared "SAVEGAME_01" after "A" was overwritten with
\* 900 bytes
GrownMedium(g) ==
    sat_write(OVERWRITE_EXISTING_SAVE, LargeSave.filename, MetadataOf(LargeSave),
              DataOf(LargeSave), LargeSave.size, ClearedSplitMedium(g), g.partition_size,
              g.block_size, g.skip_bytes).part

InitShared ==
    /\ dev \in { g \in Geometries : g.block_size <= g.partition_size }
    /\ part \in LongMedia(dev) \cup { GrownMedium(dev) }
    /\ nops = 0
    /\ last = NoCall
    /\ obs = NoCall
    /\ raw = NoRaw

SharedWriteThird ==
    \E s \in ThirdSaves, flags \in {0, OVERWRITE_EXISTING_SAVE} :
        /\ Changes(MaxSharedOps)
        /\ \E r \in { sat_write(flags, s.filename, ThirdMetadata(s), DataOf(s), s.size, part,
                                dev.partition_size, dev.block_size, dev.skip_bytes) } :
              /\ part' = r.part
              /\ last' = Call("sat_write", s.filename, flags, s.size, DataOf(s), r.res,
                              [existed |-> Exists(s.filename, part)])
        /\ nops' = nops + 1
        /\ obs' = NoCall
        /\ UNCHANGED <<dev, raw>>

SharedWrite == Write(MaxSharedOps)

SharedDelete == Delete(MaxSharedOps)

\* sat_read of "A" into a buffer of exactly the 900 bytes it was written with
SharedRead ==
    /\ Observes
    /\ \E r \in { sat_read(LargeSave.filename, LargeSave.size, part, dev.partition_size,
                            dev.block_size, dev.skip_bytes) } :
          obs' = Call("sat_read", LargeSave.filename, 0, LargeSave.size, <<>>, r.res,
                      [buffer |-> r.buffer, bytes_read |-> r.bytes_read])
    /\ UNCHANGED <<part, dev, nops, last, raw>>

NextShared ==
    \/ SharedWriteThird
    \/ SharedWrite
    \/ SharedDelete
    \/ SharedRead

SpecShared == InitShared /\ [][NextShared]_vars

(***************************************************************************)
(* An eighth state machine lets another program change the chain or the    *)
(* data_size of a save after the calls, and reads the save afterwards.     *)
(***************************************************************************)
\* entry k of the index chain in the start block of a live save becomes the
\* terminator
CutEntry ==
    \E filename \in Names, k \in 0..2 :
        \E f \in { find_save(filename, part, dev.partition_size, dev.block_size,
                             dev.skip_bytes) } :
            /\ raw = NoRaw /\ obs = NoCall
            /\ f.res = SLINGA_SUCCESS
            /\ \A j \in 0..k :
                  U16Val(read_from_partition(part, f.save_start, SAT_HEADER_SIZE + 2 * j, 2,
                                             dev.skip_bytes).dst) # 0
            /\ part' = Store(part, f.save_start, SAT_HEADER_SIZE + 2 * k, U16Bytes(0), 2,
                             dev.skip_bytes)
            /\ raw' = [kind |-> "cut", filename |-> filename, at |-> SAT_HEADER_SIZE + 2 * k]
            /\ UNCHANGED <<dev, nops, last, obs>>

\* the data_size field of the header of a live save gets another value
SetDataSize ==
    \E filename \in Names, data_size \in {10, 300, 850} :
        \E f \in { find_save(filename, part, dev.partition_size, dev.block_size,
                             dev.skip_bytes) } :
            /\ raw = NoRaw /\ obs = NoCall
            /\ f.res = SLINGA_SUCCESS
            /\ HdrDataSize(read_from_partition(part, f.save_start, 0, SAT_HEADER_SIZE,
                                               dev.skip_bytes).dst) # data_size
            /\ part' = Store(part, f.save_start, SAT_HEADER_SIZE - 4, U32Bytes(data_size), 4,
                             dev.skip_bytes)
            /\ raw' = [kind |-> "size", filename |-> filename, at |-> SAT_HEADER_SIZE - 4]
            /\ UNCHANGED <<dev, nops, last, obs>>

ChainWrite == Write(MaxChainOps)

ChainDelete == Delete(MaxChainOps)

\* sat_read of the changed save into a buffer of the size its header states
ReadChanged ==
    \E filename \in Names, size \in {10, 250, 300, 800, 850} :
        /\ Observes
        /\ raw # NoRaw
        /\ \E r \in { sat_read(filename, size, part, dev.partition_size, dev.block_size,
                                dev.skip_bytes) } :
              obs' = Call("sat_read", filename, 0, size, <<>>, r.res,
                          [buffer |-> r.buffer, bytes_read |-> r.bytes_read])
        /\ UNCHANGED <<part, dev, nops, last, raw>>

NextChain ==
    \/ ChainWrite
    \/ ChainDelete
    \/ CutEntry
    \/ SetDataSize
    \/ ReadChanged

SpecChain == InitLong /\ [][NextChain]_vars

(***************************************************************************)
(* A ninth state machine writes one save with the metadata the caller      *)
(* chose on a formatted medium and asks for the metadata back.  The       *)
(* caller's choice is kept in raw.                                         *)
(***************************************************************************)
LongestName == <<83, 65, 86, 69, 71, 65, 77, 69, 95, 48, 49>>   \* "SAVEGAME_01"

LongestComment == <<48, 49, 50, 51, 52, 53, 54, 55, 56, 57>>    \* "0123456789"

\* timestamps, in seconds since 1980: none, and one of 2^24 seconds or more
Timestamps == {0, 16909060}

InitMeta ==
    /\ dev \in { g \in Geometries : g.block_size <= g.partition_size }
    /\ part = FormatOn(Buffer(dev.buffer_size, 0), dev)
    /\ nops = 0
    /\ last = NoCall
    /\ obs = NoCall
    /\ raw \in { [kind |-> "metadata", filename |-> SubSeq(LongestName, 1, n), at |-> 0,
                  comment |-> SubSeq(LongestComment, 1, c), language |-> l, timestamp |-> t] :
                 n \in 1..SAT_MAX_SAVE_NAME, c \in 0..SAT_MAX_SAVE_COMMENT, l \in 0..5,
                 t \in Timestamps }

MetaWrite ==
    \E size \in {10, 100} :
        /\ nops = 0
        /\ \E r \in { sat_write(0, raw.filename,
                                Metadata(raw.filename, raw.comment, raw.language, raw.timestamp,
                                         size),
                                Payload(size, size), size, part, dev.partition_size,
                                dev.block_size, dev.skip_bytes) } :
              /\ part' = r.part
              /\ last' = Call("sat_write", raw.filename, 0, size, Payload(size, size), r.res,
                              [existed |-> FALSE])
        /\ nops' = nops + 1
        /\ UNCHANGED <<dev, obs, raw>>

MetaQuery ==
    /\ nops = 1 /\ obs = NoCall
    /\ \E r \in { sat_query_file(raw.filename, part, dev.partition_size, dev.block_size,
                                  dev.skip_bytes) } :
          obs' = Call("sat_query_file", raw.filename, 0, 0, <<>>, r.res,
                      [metadata |-> r.metadata])
    /\ UNCHANGED <<part, dev, nops, last, raw>>

MetaList ==
    /\ nops = 1 /\ obs = NoCall
    /\ \E r \in { sat_list_saves(part, dev.partition_size, dev.block_size, dev.skip_bytes, TRUE,
                                  1) } :
          obs' = Call("sat_list_saves", <<>>, 0, 1, <<>>, r.res,
                      [saves |-> r.saves, saves_available |-> r.saves_found])
    /\ UNCHANGED <<part, dev, nops, last, raw>>

NextMeta ==
    \/ MetaWrite
    \/ MetaQuery
    \/ MetaList

SpecMeta == InitMeta /\ [][NextMeta]_vars

(***************************************************************************)
(* A tenth state machine sizes and clears g_SAT_bitmap for partitions of   *)
(* about ACTION_REPLAY_MAX_BLOCKS blocks, as sat_write and the readers do  *)
(* before they look at the partition.  These steps do not read the         *)
(* partition, so part holds its first block only.                          *)
(***************************************************************************)
InitBitmap ==
    /\ dev \in { [partition_size |-> n * b, block_size |-> b, skip_bytes |-> 0,
                  buffer_size |-> n * b] :
                 n \in (8 * SAT_MAX_BITMAP - MaxExtraBlocks)..(8 * SAT_MAX_BITMAP + MaxExtraBlocks),
                 b \in {MIN_BLOCK_SIZE, INTERNAL_MEMORY_BLOCK_SIZE} }
    /\ part = Buffer(MIN_BLOCK_SIZE, 0)
    /\ nops = 0
    /\ last = NoCall
    /\ obs = NoCall
    /\ raw = NoRaw

\* get_bitmap_size(partition_size, block_size, sizeof(g_SAT_bitmap), ...) and
\* memset(g_SAT_bitmap, 0, bitmap_size): `cleared` is the number of bytes
\* that are set to zero from g_SAT_bitmap[0] on
ClearBitmap ==
    /\ obs = NoCall
    /\ \E r \in { get_bitmap_size(dev.partition_size, dev.block_size, SAT_MAX_BITMAP) } :
          obs' = Call("get_bitmap_size", <<>>, 0, SAT_MAX_BITMAP, <<>>, r.res,
                      [bitmap_size |-> r.bitmap_size,
                       cleared |-> IF r.res = SLINGA_SUCCESS THEN r.bitmap_size ELSE 0])
    /\ UNCHANGED <<part, dev, nops, last, raw>>

NextBitmap == ClearBitmap

SpecBitmap == InitBitmap /\ [][NextBitmap]_vars

(***************************************************************************)
(* An eleventh state machine: the caller passes the filename and the       *)
(* metadata separately (Slinga_SetSaveMetadata takes a filename and a save *)
(* name), so the save name in the metadata may differ from the filename.   *)
(***************************************************************************)
InitNames ==
    /\ dev \in { g \in Geometries : g.block_size <= g.partition_size }
    /\ part = FormatOn(Buffer(dev.buffer_size, 0), dev)
    /\ nops = 0
    /\ last = NoCall
    /\ obs = NoCall
    /\ raw = NoRaw

NamedWrite ==
    \E filename \in Names, savename \in Names, size \in {10, 100},
       flags \in {0, OVERWRITE_EXISTING_SAVE} :
        /\ Changes(MaxNameOps)
        /\ \E r \in { sat_write(flags, filename, Metadata(savename, <<>>, 0, 0, size),
                                Payload(size, size), size, part, dev.partition_size,
                                dev.block_size, dev.skip_bytes) } :
              /\ part' = r.part
              /\ last' = Call("sat_write", filename, flags, size, Payload(size, size), r.res,
                              [existed |-> Exists(filename, part), savename |-> savename])
        /\ nops' = nops + 1
        /\ obs' = NoCall
        /\ UNCHANGED <<dev, raw>>

NamedDelete == Delete(MaxNameOps)

NextNames ==
    \/ NamedWrite
    \/ NamedDelete
    \/ Query

SpecNames == InitNames /\ [][NextNames]_vars

(***************************************************************************)
(* A twelfth state machine applies the partition accessors to a buffer of  *)
(* four 64-byte rows that holds 255 everywhere.  The arguments of the call *)
(* are kept in last, those of a read in obs.                               *)
(***************************************************************************)
IoOffsets == {0, 5, 30, 62}

\* which pointer argument of the call is null
NullArguments == {"none", "dst", "src"}

IoCall(op, base, offset, size, sk, null, res, out) ==
    [op |-> op, base |-> base, offset |-> offset, size |-> size, sk |-> sk, null |-> null,
     res |-> res, out |-> out]

InitIo ==
    /\ dev = [partition_size |-> 4 * MIN_BLOCK_SIZE, block_size |-> MIN_BLOCK_SIZE,
              skip_bytes |-> 0, buffer_size |-> 4 * MIN_BLOCK_SIZE]
    /\ part = Buffer(4 * MIN_BLOCK_SIZE, 255)
    /\ nops = 0
    /\ last = NoCall
    /\ obs = NoCall
    /\ raw = NoRaw

IoWrite ==
    \E base \in {0, MIN_BLOCK_SIZE}, offset \in IoOffsets, size \in 0..MaxIoLen, sk \in 0..2,
       null \in NullArguments :
        /\ nops < MaxIoOps /\ obs = NoCall
        /\ \E r \in { write_to_partition(IF null = "dst" THEN NULL ELSE part, base, offset,
                                         IF null = "src" THEN NULL
                                         ELSE Payload(1 + 16 * nops, size),
                                         size, sk) } :
              /\ part' = IF null = "dst" THEN part ELSE r.part
              /\ last' = IoCall("write_to_partition", base, offset, size, sk, null, r.res,
                                Payload(1 + 16 * nops, size))
        /\ nops' = nops + 1
        /\ UNCHANGED <<dev, obs, raw>>

IoFill ==
    \E base \in {0, MIN_BLOCK_SIZE}, offset \in IoOffsets, size \in 0..MaxIoLen, sk \in 0..2,
       null \in {"none", "dst"}, val \in {7} :
        /\ nops < MaxIoOps /\ obs = NoCall
        /\ \E r \in { memset_partition(IF null = "dst" THEN NULL ELSE part, base, offset, val,
                                       size, sk) } :
              /\ part' = IF null = "dst" THEN part ELSE r.part
              /\ last' = IoCall("memset_partition", base, offset, size, sk, null, r.res,
                                [i \in 1..size |-> val])
        /\ nops' = nops + 1
        /\ UNCHANGED <<dev, obs, raw>>

\* read_from_partition; its first test also rejects a null dst, which is
\* the buffer the result stands for
IoRead ==
    \E base \in {0, MIN_BLOCK_SIZE}, offset \in IoOffsets, size \in 0..MaxIoLen, sk \in 0..2,
       null \in NullArguments :
        /\ obs = NoCall
        /\ \E r \in { IF null = "dst" THEN [res |-> SLINGA_INVALID_PARAMETER, dst |-> <<>>]
                       ELSE read_from_partition(IF null = "src" THEN NULL ELSE part, base,
                                                offset, size, sk) } :
              obs' = IoCall("read_from_partition", base, offset, size, sk, null, r.res,
                            r.dst)
        /\ UNCHANGED <<part, dev, nops, last, raw>>

NextIo ==
    \/ IoWrite
    \/ IoFill
    \/ IoRead

SpecIo == InitIo /\ [][NextIo]_vars

(***************************************************************************)
(* invert_bitmap and count_bitmap on a bitmap of their own: a buffer of     *)
(* MaxBitmapBytes bytes of any value, of which the first bitmap_size are    *)
(* the bitmap, or no buffer at all                                          *)
(***************************************************************************)
InitSymmetry ==
    /\ raw \in { [kind |-> "bitmap", filename |-> <<>>, at |-> 0,
                  bitmap |-> b, bitmap_size |-> n] :
                 b \in [0..(MaxBitmapBytes - 1) -> 0..255] \cup {NULL},
                 n \in 0..MaxBitmapBytes }
    /\ dev = [partition_size |-> MIN_BLOCK_SIZE, block_size |-> MIN_BLOCK_SIZE,
              skip_bytes |-> 0, buffer_size |-> MIN_BLOCK_SIZE]
    /\ part = Buffer(MIN_BLOCK_SIZE, 0)
    /\ nops = 0
    /\ last = Call("none", <<>>, 0, 0, <<>>, SLINGA_SUCCESS, [bitmap |-> raw.bitmap])
    /\ obs = Call("none", <<>>, 0, 0, <<>>, SLINGA_SUCCESS,
                  [counted |-> [k \in 0..MaxInvertOps |-> FALSE],
                   res |-> [k \in 0..MaxInvertOps |-> SLINGA_SUCCESS],
                   total |-> [k \in 0..MaxInvertOps |-> 0]])

\* invert_bitmap(bitmap, bitmap_size) on the buffer as the calls before left it
InvertBitmap ==
    /\ nops < MaxInvertOps
    /\ \E r \in { invert_bitmap(last.out.bitmap, raw.bitmap_size) } :
          last' = Call("invert_bitmap", <<>>, 0, raw.bitmap_size, <<>>, r.res,
                       [bitmap |-> r.bitmap])
    /\ nops' = nops + 1
    /\ UNCHANGED <<part, dev, obs, raw>>

\* count_bitmap(bitmap, bitmap_size, &total) on the buffer after nops calls of
\* invert_bitmap; total is kept under the number of those calls
CountBitmap ==
    /\ ~obs.out.counted[nops]
    /\ \E r \in { count_bitmap(last.out.bitmap, raw.bitmap_size) } :
          obs' = Call("count_bitmap", <<>>, 0, raw.bitmap_size, <<>>, r.res,
                      [counted |-> [obs.out.counted EXCEPT ![nops] = TRUE],
                       res |-> [obs.out.res EXCEPT ![nops] = r.res],
                       total |-> [obs.out.total EXCEPT ![nops] = r.total]])
    /\ UNCHANGED <<part, dev, nops, last, raw>>

NextSymmetry == InvertBitmap \/ CountBitmap

SpecSymmetry == InitSymmetry /\ [][NextSymmetry]_vars

(***************************************************************************)
(* Properties                                                              *)
(***************************************************************************)
\* the step is a call of `op` (the calls that may change the partition count
\* in nops, the read-only ones set obs)
Called(op) == nops' = nops + 1 /\ last'.op = op

\* the read-only call in obs was made with the name of the last call
SameName == obs.filename = last.filename

\* C1: a successful sat_write(name, payload, L) followed by sat_read(name,
\* size = L) returns SLINGA_SUCCESS, bytes_read = L and a buffer equal to the
\* payload, byte for byte, whatever calls shaped the partition before.
C1_RoundTrip ==
    (last.op = "sat_write" /\ last.res = SLINGA_SUCCESS /\ obs.op = "sat_read" /\ SameName
        /\ obs.size = last.size)
    => (obs.res = SLINGA_SUCCESS /\ obs.out.bytes_read = last.size
        /\ obs.out.buffer = last.data)

\* a save whose chain spills into a second block was written after an
\* earlier call and read back
C1_Witness ==
    /\ last.op = "sat_write" /\ last.res = SLINGA_SUCCESS /\ last.size = 850 /\ nops >= 2
    /\ obs.op = "sat_read" /\ SameName /\ obs.size = last.size
    /\ obs.out.buffer = last.data

\* the device passes a partition of at least one block
ValidParameters == dev.block_size <= dev.partition_size

\* the number of free blocks sat_write finds on the partition p: what is left
\* when the blocks of every live save are marked busy
FreeBlocks(p) ==
    LET bitmap_size == get_bitmap_size(dev.partition_size, dev.block_size,
                                       SAT_MAX_BITMAP).bitmap_size
        busy == walk_partition_bitmap(ZeroBitmap(bitmap_size), bitmap_size, p,
                                      dev.partition_size, dev.block_size, dev.skip_bytes)
    IN count_bitmap(invert_bitmap(busy.bitmap, bitmap_size).bitmap, bitmap_size).total

BlocksNeeded(size) == calc_num_blocks(size, dev.block_size, dev.skip_bytes).n

\* C2: a sat_write of a name that is not present fails with
\* SLINGA_NOT_ENOUGH_SPACE exactly when the partition has fewer free blocks
\* than calc_num_blocks(size), and returns SLINGA_SUCCESS whenever the free
\* blocks suffice, also when the save takes the last free blocks.
C2_SpaceDecides ==
    [][(Called("sat_write") /\ ValidParameters /\ ~last'.out.existed)
        => /\ (last'.res = SLINGA_NOT_ENOUGH_SPACE) <=> (FreeBlocks(part) < BlocksNeeded(last'.size))
           /\ (FreeBlocks(part) >= BlocksNeeded(last'.size)) => (last'.res = SLINGA_SUCCESS)]_vars

\* the blocks of p whose first bytes are a start tag followed by that name
LiveBlocks(filename, p) ==
    { b \in 2..((dev.partition_size \div dev.block_size) - 1) :
        LET h == read_from_partition(p, b * dev.block_size, 0, SAT_HEADER_SIZE,
                                     dev.skip_bytes).dst
        IN HdrTag(h) = SAT_START_BLOCK_TAG
           /\ \A i \in 1..SAT_MAX_SAVE_NAME : HdrSavename(h)[i] = CharAt(filename, i) }

\* the physical offsets of the four tag bytes of block b
TagBytes(b) == { PhysAddr(b * dev.block_size, 0, i, dev.skip_bytes) : i \in 0..(SAT_TAG_SIZE - 1) }

\* p with zero at the offsets in `at`, every other byte as it was
Zeroed(p, at) ==
    [r \in DOMAIN p |->
        [o \in DOMAIN p[r] |-> IF (r * MIN_BLOCK_SIZE + o) \in at THEN 0 ELSE p[r][o]]]

\* p after the tag of the first live save of that name was zeroed
Untagged(filename, p) ==
    LET live == LiveBlocks(filename, p)
    IN Zeroed(p, TagBytes(CHOOSE b \in live : \A c \in live : b <= c))

ReadOf(filename, size, p) ==
    sat_read(filename, size, p, dev.partition_size, dev.block_size, dev.skip_bytes)

QueryOf(filename, p) ==
    sat_query_file(filename, p, dev.partition_size, dev.block_size, dev.skip_bytes)

\* C3: sat_write without OVERWRITE_EXISTING_SAVE of a name that has a live
\* save returns SLINGA_FILE_EXISTS and leaves every byte of the partition as
\* it was; the save that was there still reads back in full.
C3_FileExists ==
    /\ [][(Called("sat_write") /\ ValidParameters /\ last'.out.existed /\ last'.flags = 0)
            => (last'.res = SLINGA_FILE_EXISTS /\ part' = part)]_vars
    /\ [](  (last.op = "sat_write" /\ last.res = SLINGA_FILE_EXISTS /\ obs.op = "sat_read"
              /\ SameName /\ obs.size = QueryOf(last.filename, part).metadata.data_size)
           => (obs.res = SLINGA_SUCCESS /\ obs.out.buffer = Payload(obs.size, obs.size)))

\* a write was refused for a save of another length, which then read back
C3_Witness ==
    /\ last.op = "sat_write" /\ last.res = SLINGA_FILE_EXISTS /\ last.flags = 0
    /\ obs.op = "sat_read" /\ SameName /\ obs.size # last.size
    /\ obs.res = SLINGA_SUCCESS /\ obs.out.buffer = Payload(obs.size, obs.size)

\* C4: sat_write with OVERWRITE_EXISTING_SAVE of a name that has a live save
\* zeroes the 4-byte tag of the old save and nothing else before it counts
\* the free blocks, so the old save's blocks are free for the new one; after
\* a successful call exactly one live save has the name and sat_read returns
\* the new payload.
C4_Overwrite ==
    [][(Called("sat_write") /\ ValidParameters /\ last'.out.existed
          /\ last'.flags = OVERWRITE_EXISTING_SAVE)
        => LET old == Untagged(last'.filename, part)
               r == ReadOf(last'.filename, last'.size, part')
           IN /\ (last'.res = SLINGA_NOT_ENOUGH_SPACE)
                    <=> (FreeBlocks(old) < BlocksNeeded(last'.size))
              /\ (last'.res = SLINGA_NOT_ENOUGH_SPACE) => (part' = old)
              /\ (last'.res = SLINGA_SUCCESS)
                    => /\ Cardinality(LiveBlocks(last'.filename, part')) = 1
                       /\ r.res = SLINGA_SUCCESS
                       /\ r.buffer = last'.data]_vars

\* a save was overwritten by one of another length, which then read back
C4_Witness ==
    /\ last.op = "sat_write" /\ last.res = SLINGA_SUCCESS /\ last.out.existed
    /\ last.flags = OVERWRITE_EXISTING_SAVE
    /\ obs.op = "sat_read" /\ SameName /\ obs.size = last.size
    /\ obs.res = SLINGA_SUCCESS /\ obs.out.buffer = last.data
    /\ Cardinality(LiveBlocks(last.filename, part)) = 1

\* C5: sat_delete of an existing save zeroes the 4 tag bytes of its start
\* block and changes no other byte of the partition, and the name is then
\* SLINGA_NOT_FOUND for sat_query_file and sat_read; sat_delete of an absent
\* name returns SLINGA_NOT_FOUND and changes nothing.
C5_DeleteFrame ==
    [][(Called("sat_delete") /\ ValidParameters)
        => IF last'.out.existed
           THEN /\ last'.res = SLINGA_SUCCESS
                /\ part' = Untagged(last'.filename, part)
                /\ LiveBlocks(last'.filename, part') = {}
                /\ QueryOf(last'.filename, part').res = SLINGA_NOT_FOUND
                /\ \A s \in Saves : s.filename = last'.filename
                        => ReadOf(s.filename, s.size, part').res = SLINGA_NOT_FOUND
           ELSE last'.res = SLINGA_NOT_FOUND /\ part' = part]_vars

\* a save was deleted while another one was live, and is no longer found
C5_Witness ==
    /\ last.op = "sat_delete" /\ last.res = SLINGA_SUCCESS /\ last.out.existed
    /\ obs.op = "sat_query_file" /\ SameName /\ obs.res = SLINGA_NOT_FOUND
    /\ \E n \in Names : n # last.filename /\ LiveBlocks(n, part) # {}

\* the names that have a live save on p
LiveNames(p) == { n \in Names : LiveBlocks(n, p) # {} }

\* the save s is the only live save on p
OnlySave(s, p) ==
    /\ LiveNames(p) = {s.filename}
    /\ Cardinality(LiveBlocks(s.filename, p)) = 1
    /\ QueryOf(s.filename, p).metadata.data_size = s.size

\* the metadata the save s was written with, as strings
WrittenMetadata(s) ==
    [savename |-> CStr(MetadataOf(s).savename),
     filename |-> CStr(MetadataOf(s).savename) \o <<46, 66, 85, 80>>,
     comment |-> CStr(MetadataOf(s).comment),
     language |-> MetadataOf(s).language,
     timestamp |-> MetadataOf(s).timestamp,
     data_size |-> s.size]

UsableBlocks == (dev.partition_size \div dev.block_size) - 2

\* C6: after two saves were written and the first was deleted, sat_list_saves
\* reports exactly one save, the second, with the metadata it was written
\* with, sat_get_used_blocks reports calc_num_blocks(size of the second), and
\* sat_write counts every other usable block as free.
C6_DeleteFirst ==
    \A s \in Saves :
        (last.op = "sat_delete" /\ last.res = SLINGA_SUCCESS /\ last.filename # s.filename
            /\ ValidParameters /\ OnlySave(s, part))
        => /\ (obs.op = "sat_list_saves")
                => (obs.res = SLINGA_SUCCESS /\ obs.out.saves_available = 1
                    /\ obs.out.saves = <<WrittenMetadata(s)>>)
           /\ (obs.op = "sat_get_used_blocks")
                => (obs.res = SLINGA_SUCCESS /\ obs.out.used_blocks = BlocksNeeded(s.size))
           /\ FreeBlocks(part) = UsableBlocks - BlocksNeeded(s.size)

\* C7: sat_read of a save whose index chain holds a non-zero entry that is
\* not greater than the index of the block storing it returns
\* SLINGA_SAT_BLOCKS_OUT_OF_ORDER.
C7_OutOfOrder ==
    (raw.kind = "plant" /\ obs.op = "sat_read" /\ obs.filename = raw.filename
        /\ obs.size = QueryOf(raw.filename, part).metadata.data_size)
    => obs.res = SLINGA_SAT_BLOCKS_OUT_OF_ORDER

\* C8: sat_check_formatted after a sat_format that returned SLINGA_SUCCESS
\* returns SLINGA_SUCCESS (with the same parameters, whatever the partition
\* held before, formatted or not), and on an all-zero partition it returns
\* SLINGA_SAT_UNFORMATTED.
C8_FormatThenCheck ==
    (obs.op = "sat_check_formatted")
    => /\ (last.op = "sat_format" /\ last.res = SLINGA_SUCCESS) => obs.res = SLINGA_SUCCESS
       /\ (ValidParameters /\ part = Buffer(dev.buffer_size, 0))
            => obs.res = SLINGA_SAT_UNFORMATTED

\* every byte of block 0 of p is the byte of the repeated signature
SignatureBlock(p) ==
    \A i \in 0..(BlockBytes - 1) :
        ByteAt(p, PhysAddr(0, 0, i, dev.skip_bytes))
            = BACKUP_RAM_FORMAT_STR[(i % BACKUP_RAM_FORMAT_STR_LEN) + 1]

\* C9: with parameters it accepts, sat_check_formatted returns SLINGA_SUCCESS
\* if and only if block 0 is made of repeated copies of "BackUpRam Format",
\* and after one byte of block 0 of a formatted partition changed it returns
\* SLINGA_SAT_UNFORMATTED, with and without skipped bytes.
C9_Signature ==
    (obs.op = "sat_check_formatted" /\ ValidParameters)
    => /\ (obs.res = SLINGA_SUCCESS) <=> SignatureBlock(part)
       /\ (raw.kind = "flip") => obs.res = SLINGA_SAT_UNFORMATTED

\* a byte of the last signature line of a block with skipped bytes changed,
\* and the check said unformatted
C9_Witness ==
    /\ raw.kind = "flip" /\ raw.at >= BlockBytes - BACKUP_RAM_FORMAT_STR_LEN
    /\ dev.skip_bytes = 1
    /\ obs.op = "sat_check_formatted" /\ obs.res = SLINGA_SAT_UNFORMATTED

\* C10: after a sat_format that returned SLINGA_SUCCESS, sat_list_saves
\* reports 0 saves, sat_get_used_blocks reports 0 and every name is
\* SLINGA_NOT_FOUND, with and without skipped bytes.
C10_FormatLosesSaves ==
    (last.op = "sat_format" /\ last.res = SLINGA_SUCCESS /\ ValidParameters)
    => /\ (obs.op = "sat_list_saves")
            => (obs.res = SLINGA_SUCCESS /\ obs.out.saves_available = 0)
       /\ (obs.op = "sat_get_used_blocks")
            => (obs.res = SLINGA_SUCCESS /\ obs.out.used_blocks = 0)
       /\ (obs.op \in {"sat_read", "sat_query_file"}) => obs.res = SLINGA_NOT_FOUND

\* every byte of block b of p is zero
BlockZero(p, b) ==
    \A i \in 0..(BlockBytes - 1) :
        ByteAt(p, PhysAddr(b * dev.block_size, 0, i, dev.skip_bytes)) = 0

\* The blocks of a save as its index chain lists them: blocks[1] is the start
\* block, the entries are read from logical offset off of blocks[k] on and
\* continue behind the tag of the next listed block, up to the zero entry.
RECURSIVE ChainFrom(_, _, _, _)
ChainFrom(p, blocks, k, off) ==
    LET e == U16Val(read_from_partition(p, blocks[k] * dev.block_size, off, 2,
                                        dev.skip_bytes).dst)
        more == blocks \o <<e>>
    IN IF e = 0 THEN blocks
       ELSE IF e * dev.block_size >= dev.partition_size \/ Len(more) > NumBlocks THEN more
       ELSE IF off + 2 < BlockBytes THEN ChainFrom(p, more, k, off + 2)
       ELSE ChainFrom(p, more, k + 1, SAT_TAG_SIZE)

\* the blocks of the first live save of that name on p
SaveBlocks(filename, p) ==
    LET live == LiveBlocks(filename, p)
    IN ChainFrom(p, <<CHOOSE b \in live : \A c \in live : b <= c>>, 1, SAT_HEADER_SIZE)

\* C11: the blocks a successful sat_write consumes (the start block and the
\* non-zero entries of the index chain it writes) are calc_num_blocks(size)
\* distinct blocks, the free-block count drops by exactly that number, and
\* every one of them receives a byte of header, chain or payload (a block
\* that was all zero is not all zero afterwards), also when the payload ends
\* exactly on a block boundary.
C11_BlocksConsumed ==
    [][(Called("sat_write") /\ last'.res = SLINGA_SUCCESS /\ ValidParameters)
        => \A old \in { IF last'.out.existed THEN Untagged(last'.filename, part) ELSE part } :
           \A blocks \in { SaveBlocks(last'.filename, part') } :
           \A n \in { BlocksNeeded(last'.size) } :
              /\ Len(blocks) = n
              /\ Cardinality({ blocks[i] : i \in 1..Len(blocks) }) = n
              /\ FreeBlocks(part') = FreeBlocks(old) - n
              /\ \A i \in 1..Len(blocks) :
                    /\ blocks[i] \in 2..((dev.partition_size \div dev.block_size) - 1)
                    /\ BlockZero(old, blocks[i]) => ~BlockZero(part', blocks[i])]_vars

\* a save of several blocks was written whose header, chain with the entry
\* calc_num_blocks counts for the terminator, and payload fill whole blocks
C11_Witness ==
    /\ last.op = "sat_write" /\ last.res = SLINGA_SUCCESS
    /\ BlocksNeeded(last.size) >= 2
    /\ SAT_HEADER_SIZE - SAT_TAG_SIZE + 2 * (BlocksNeeded(last.size) + 1) + last.size
          = BlocksNeeded(last.size) * (BlockBytes - SAT_TAG_SIZE)
    /\ Len(SaveBlocks(last.filename, part)) = BlocksNeeded(last.size)

\* the iteration as specified: from n, n' = ceil((fixed + 2 (n + 1)) / usable)
\* until n' = n
RECURSIVE SpecifiedLoop(_, _, _)
SpecifiedLoop(n, fixed, usable) ==
    LET total == fixed + 2 * (n + 1)
        next == (total + usable - 1) \div usable
    IN IF next = n THEN n ELSE SpecifiedLoop(next, fixed, usable)

\* seeded with n = fixed / usable
SpecifiedBlocks(save_size) ==
    SpecifiedLoop((SAT_HEADER_SIZE - SAT_TAG_SIZE + save_size) \div (BlockBytes - SAT_TAG_SIZE),
                  SAT_HEADER_SIZE - SAT_TAG_SIZE + save_size, BlockBytes - SAT_TAG_SIZE)

\* C12: calc_num_blocks terminates for every payload size and every valid
\* block size, and returns SLINGA_SUCCESS with the value reached by the
\* specified iteration (seed fixed / usable, n' = ceil((fixed + 2 (n + 1)) /
\* usable) until n' = n); for block_size 64, skip_bytes 0 and payload 10 it
\* returns 1.
C12_CalcNumBlocks ==
    /\ <>(obs.pc = "done")
    /\ []((obs.pc = "done")
            => /\ obs.res = SLINGA_SUCCESS
               /\ obs.n = SpecifiedBlocks(obs.save_size)
               /\ obs.n = BlocksNeeded(obs.save_size)
               /\ (dev.block_size = 64 /\ dev.skip_bytes = 0 /\ obs.save_size = 10)
                     => obs.n = 1)

\* the call for 10 bytes on 64-byte blocks returned 1 after two passes of
\* the loop
C12_Witness ==
    /\ obs.op = "calc_num_blocks" /\ obs.pc = "done" /\ obs.res = SLINGA_SUCCESS
    /\ dev.block_size = 64 /\ dev.skip_bytes = 0 /\ obs.save_size = 10
    /\ obs.n = 1 /\ obs.num_blocks2 = 1

\* the blocks of p that carry a start tag, and the i-th of them
StartBlocks(p) ==
    { b \in 2..((dev.partition_size \div dev.block_size) - 1) :
        read_from_partition(p, b * dev.block_size, 0, SAT_TAG_SIZE, dev.skip_bytes).dst
            = SAT_START_BLOCK_TAG }

NthStart(p, i) ==
    CHOOSE b \in StartBlocks(p) : Cardinality({ c \in StartBlocks(p) : c < b }) = i - 1

\* what every sat_list_saves call does apart from the saves-found output of
\* a call that returns SLINGA_BUFFER_TOO_SMALL
ListedAsFound(live) ==
    IF obs.out.want_saves /\ live > obs.size
    THEN /\ obs.res = SLINGA_BUFFER_TOO_SMALL
         /\ Len(obs.out.saves) = obs.size
         /\ \A i \in 1..obs.size :
               obs.out.saves[i] = copy_metadata(part, NthStart(part, i) * dev.block_size,
                                                dev.skip_bytes)
    ELSE /\ obs.res = SLINGA_SUCCESS
         /\ obs.out.saves_available = live
         /\ obs.out.want_saves => Len(obs.out.saves) = live

\* C13: sat_list_saves with an array of capacity k on a partition holding
\* more than k saves returns SLINGA_BUFFER_TOO_SMALL with the first k entries
\* filled and reports through its saves-found output the number of saves
\* found so far (k); with capacity >= the number of saves, or a null array,
\* it returns SLINGA_SUCCESS with the exact number of live saves.
C13_ListCapacity ==
    (obs.op = "sat_list_saves" /\ ValidParameters)
    => /\ ListedAsFound(Cardinality(StartBlocks(part)))
       /\ (obs.res = SLINGA_BUFFER_TOO_SMALL) => obs.out.saves_available = obs.size

\* C13 as the code has it: a call that returns SLINGA_BUFFER_TOO_SMALL has
\* filled the first k entries and does not store into its saves-found
\* output, which keeps the value the caller's variable had; the other calls
\* return SLINGA_SUCCESS with the exact number of live saves.
C13_ListCapacityAmended ==
    (obs.op = "sat_list_saves" /\ ValidParameters)
    => /\ ListedAsFound(Cardinality(StartBlocks(part)))
       /\ (obs.res = SLINGA_BUFFER_TOO_SMALL) => obs.out.saves_available = obs.out.before

\* two saves were listed into an array of one entry, which was filled, and
\* the caller's count stayed at 0
C13_Witness ==
    /\ obs.op = "sat_list_saves" /\ obs.res = SLINGA_BUFFER_TOO_SMALL
    /\ obs.size = 1 /\ Cardinality(StartBlocks(part)) = 2
    /\ Len(obs.out.saves) = 1 /\ obs.out.before = 0 /\ obs.out.saves_available = 0

\* C14: whenever sat_write, sat_delete or sat_format returns
\* SLINGA_INVALID_PARAMETER (null or zero argument, skip_bytes other than 0
\* or 1, block size not a multiple of 64 after the skip-bytes adjustment,
\* partition size not a multiple of the block size), the partition is byte
\* for byte what it was before the call, also when OVERWRITE_EXISTING_SAVE
\* is set and a save of that name exists.
C14_ParametersFirst ==
    [][(nops' = nops + 1 /\ last'.res = SLINGA_INVALID_PARAMETER) => part' = part]_vars

\* the physical bytes of block b of p
BlockOf(p, b) == [i \in 0..(dev.block_size - 1) |-> ByteAt(p, b * dev.block_size + i)]

Formatted(p) ==
    sat_check_formatted(p, dev.partition_size, dev.block_size, dev.skip_bytes) = SLINGA_SUCCESS

\* no live save of p lists block 0 or 1 in its index chain
NoReservedEntry(p) ==
    \A b \in StartBlocks(p) :
        \A blocks \in { ChainFrom(p, <<b>>, 1, SAT_HEADER_SIZE) } :
            \A i \in 1..Len(blocks) : blocks[i] \notin {0, 1}

\* C15: blocks 0 and 1 are reserved.  A sat_write or sat_delete call (with
\* or without overwrite) on a formatted partition modifies no byte of blocks
\* 0 and 1, leaves no start tag in them and no live save whose index chain
\* lists them, and sat_check_formatted still returns SLINGA_SUCCESS; so it
\* is after any sequence of such calls.
C15_ReservedBlocks ==
    [][((Called("sat_write") \/ Called("sat_delete")) /\ ValidParameters /\ Formatted(part))
        => \A q \in { part' } :
              /\ \A b \in {0, 1} :
                    /\ BlockOf(q, b) = BlockOf(part, b)
                    /\ read_from_partition(q, b * dev.block_size, 0, SAT_TAG_SIZE,
                                           dev.skip_bytes).dst # SAT_START_BLOCK_TAG
              /\ Formatted(q)
              /\ NoReservedEntry(q)]_vars

\* a save was split around another one on a formatted medium and the other
\* one was then deleted: a save is live and block 0 still holds the signature
C15_Witness ==
    /\ last.op = "sat_delete" /\ last.res = SLINGA_SUCCESS /\ nops = 2
    /\ ValidParameters /\ Formatted(part)
    /\ \E b \in StartBlocks(part) : Len(ChainFrom(part, <<b>>, 1, SAT_HEADER_SIZE)) > 15
    /\ NoReservedEntry(part)

\* the stream s is made of complete tokens: a non-key byte; the key and a
\* zero count; the key, a non-zero count and a value
RECURSIVE CompleteTokens(_, _)
CompleteTokens(key, s) ==
    IF s = <<>> THEN TRUE
    ELSE IF s[1] # key THEN CompleteTokens(key, Tail(s))
    ELSE IF Len(s) >= 2 /\ s[2] = 0 THEN CompleteTokens(key, SubSeq(s, 3, Len(s)))
    ELSE IF Len(s) >= 3 THEN CompleteTokens(key, SubSeq(s, 4, Len(s)))
    ELSE FALSE

\* the output the stated grammar gives for a stream of complete tokens
RECURSIVE Grammar(_, _)
Grammar(key, s) ==
    IF s = <<>> THEN <<>>
    ELSE IF s[1] # key THEN <<s[1]>> \o Grammar(key, Tail(s))
    ELSE IF s[2] = 0 THEN <<key>> \o Grammar(key, SubSeq(s, 3, Len(s)))
    ELSE [k \in 1..s[2] |-> s[3]] \o Grammar(key, SubSeq(s, 4, Len(s)))

\* the two passes over a stream gave the output of the grammar
DecodedAsGrammar ==
    /\ obs.written.res = 0 /\ obs.sized.res = 0
    /\ obs.written.dest = Grammar(obs.rle_key, obs.src)
    /\ obs.written.i = Len(obs.src)
    /\ obs.sized.bytes_needed = Len(obs.written.dest)
    /\ obs.written.bytes_needed = Len(obs.written.dest)

\* C16: for every key and every input stream made of complete tokens,
\* decompress_RLE01 produces exactly the output of the stated grammar and
\* stops when the input cursor reaches src_size; the size reported by the
\* pass with a null destination equals the number of bytes written by the
\* pass with a destination.
C16_Grammar ==
    (obs.op = "decompress_RLE01" /\ CompleteTokens(obs.rle_key, obs.src)) => DecodedAsGrammar

\* C17: the RLE stream [0xAA, 0xAA, 0x03, 0x42] decoded with key 0xAA yields
\* exactly the three bytes [0x42, 0x42, 0x42].
C17_Example ==
    (obs.op = "decompress_RLE01" /\ obs.rle_key = 170 /\ obs.src = <<170, 170, 3, 66>>)
    => obs.written.dest = <<66, 66, 66>>

\* C17 as the code and the stated grammar have it: the stream is the key, the
\* count 0xAA and the value 0x03, then the literal 0x42; it yields 170 bytes
\* 0x03 followed by 0x42, and both passes report 171 bytes.
C17_ExampleAmended ==
    (obs.op = "decompress_RLE01" /\ obs.rle_key = 170 /\ obs.src = <<170, 170, 3, 66>>)
    => /\ obs.written.dest = [k \in 1..170 |-> 3] \o <<66>>
       /\ obs.sized.bytes_needed = 171 /\ obs.written.bytes_needed = 171

\* that stream went through both passes
C17_Witness ==
    /\ obs.op = "decompress_RLE01" /\ obs.rle_key = 170 /\ obs.src = <<170, 170, 3, 66>>
    /\ obs.written.res = 0 /\ Len(obs.written.dest) = 171 /\ obs.written.i = 4

\* C18: decompress_partition classifies a non-null, non-empty source by its
\* header, in order: no "RLE01" magic gives the unsupported-compression
\* error; a compressed_size not smaller than src_size or smaller than the
\* header gives the corrupt-header error; a decompressed size above
\* ACTION_REPLAY_UNCOMPRESSED_MAX_SIZE gives the partition-too-large error;
\* every other input returns SLINGA_SUCCESS with the decompressed partition,
\* block size 64 and skip_bytes 0.
C18_Classification ==
    (obs.op = "decompress_partition")
    => \A d \in { decompress_RLE01(obs.rle_key, obs.src \o obs.behind,
                                    obs.compressed_size - RLE01_HEADER_SIZE, <<>>) } :
          IF obs.magic # RLE01_MAGIC
          THEN obs.res = SLINGA_ACTION_REPLAY_UNSUPPORTED_COMPRESSION
          ELSE IF obs.compressed_size >= obs.src_size
                  \/ obs.compressed_size < RLE01_HEADER_SIZE
          THEN obs.res = SLINGA_ACTION_REPLAY_CORRUPT_COMPRESSION_HEADER
          ELSE IF d.bytes_needed > ACTION_REPLAY_UNCOMPRESSED_MAX_SIZE
          THEN obs.res = SLINGA_ACTION_REPLAY_PARTITION_TOO_LARGE
          ELSE /\ obs.res = SLINGA_SUCCESS
               /\ obs.partition.partition_buf = d.dest
               /\ obs.partition.partition_size = d.bytes_needed
               /\ obs.partition.block_size = ACTION_REPLAY_BLOCK_SIZE
               /\ obs.partition.skip_bytes = 0

\* the blocks of the live saves of p: their start blocks and the entries of
\* their index chains
SaveBlocksOf(p) ==
    UNION { { ChainFrom(p, <<b>>, 1, SAT_HEADER_SIZE)[i] :
                i \in 1..Len(ChainFrom(p, <<b>>, 1, SAT_HEADER_SIZE)) } : b \in StartBlocks(p) }

\* what walk_partition_bitmap builds for sat_write on p
BusyBitmap(p) ==
    walk_partition_bitmap(
        ZeroBitmap(get_bitmap_size(dev.partition_size, dev.block_size,
                                   SAT_MAX_BITMAP).bitmap_size),
        get_bitmap_size(dev.partition_size, dev.block_size, SAT_MAX_BITMAP).bitmap_size,
        p, dev.partition_size, dev.block_size, dev.skip_bytes)

\* C19: the busy bitmap that walk_partition_bitmap builds is exact on every
\* partition reached by format, write and delete calls: bit i is set if and
\* only if i is 0 or 1 or block i is the start block or a chain entry of a
\* live save, also when the blocks of different saves interleave and a
\* chain continues into a continuation block.
C19_BusyBitmap ==
    ValidParameters
    => \A busy \in { BusyBitmap(part) } :
       \A used \in { SaveBlocksOf(part) } :
          /\ busy.res = SLINGA_SUCCESS
          /\ \A i \in 0..((dev.partition_size \div dev.block_size) - 1) :
                TestBit(busy.bitmap, i) <=> (i \in {0, 1} \/ i \in used)

\* C20: a sat_write that returns an error leaves nothing discoverable that
\* was not there before the call: the locator finds no start block it did
\* not find before, and find_save finds no name it did not find before.
\* (An error before the first byte is written changes nothing but the save
\* an overwrite deleted, so the cases that matter are the errors of the
\* header, index-chain and data steps.)
C20_FailedWriteHidden ==
    [][(Called("sat_write") /\ last'.res # SLINGA_SUCCESS)
       => /\ StartBlocks(part') \subseteq StartBlocks(part)
          /\ \A n \in Names : Exists(n, part') => Exists(n, part)]_vars

\* the blocks of the live saves of p other than those named filename
BlocksOfOthers(filename, p) ==
    UNION { { ChainFrom(p, <<b>>, 1, SAT_HEADER_SIZE)[i] :
                i \in 1..Len(ChainFrom(p, <<b>>, 1, SAT_HEADER_SIZE)) } :
            b \in StartBlocks(p) \ LiveBlocks(filename, p) }

\* C21: sat_write allocates greedily in ascending order.  After a successful
\* call the blocks of the save it wrote are strictly increasing (so every
\* chain entry is greater than the index of the block that stores it), none
\* of them is a block of another live save, no free block below the save's
\* last block was passed over, and the reader does not report the chain as
\* out of order.
C21_GreedyAscending ==
    [][(Called("sat_write") /\ last'.res = SLINGA_SUCCESS /\ ValidParameters)
        => \A blocks \in { SaveBlocks(last'.filename, part') } :
           \A busy \in { BlocksOfOthers(last'.filename, part) } :
              /\ \A i \in 1..(Len(blocks) - 1) : blocks[i] < blocks[i + 1]
              /\ \A i \in 1..Len(blocks) : blocks[i] \notin busy
              /\ \A f \in 2..blocks[Len(blocks)] :
                    f \in busy \/ \E i \in 1..Len(blocks) : blocks[i] = f
              /\ ReadOf(last'.filename, last'.size, part').res
                    # SLINGA_SAT_BLOCKS_OUT_OF_ORDER]_vars

\* what read_sat_table returns for the save that starts in block b, with
\* the bitmap the readers hand in
TableOf(b) ==
    read_sat_table(part, dev.partition_size, dev.block_size, dev.skip_bytes, b * dev.block_size,
                   ZeroBitmap(get_bitmap_size(dev.partition_size, dev.block_size,
                                              SAT_MAX_BITMAP).bitmap_size),
                   get_bitmap_size(dev.partition_size, dev.block_size,
                                   SAT_MAX_BITMAP).bitmap_size)

\* the number of blocks the header of the save in block b asks for
BlocksOfHeader(b) ==
    BlocksNeeded(HdrDataSize(read_from_partition(part, b * dev.block_size, 0, SAT_HEADER_SIZE,
                                                 dev.skip_bytes).dst))

\* C22: read_sat_table returns SLINGA_SUCCESS for a save only if the blocks
\* it marked (start block and chain entries) are as many as calc_num_blocks
\* of the header's data_size.
C22_CountChecked ==
    \A b \in StartBlocks(part) :
        \A t \in { TableOf(b) } :
            t.res = SLINGA_SUCCESS
            => count_bitmap(t.bitmap, get_bitmap_size(dev.partition_size, dev.block_size,
                                                      SAT_MAX_BITMAP).bitmap_size).total
                  = BlocksOfHeader(b)

\* the metadata of the call kept in raw, as the caller expects it back
MetadataWritten ==
    [savename |-> raw.filename, filename |-> raw.filename \o <<46, 66, 85, 80>>,
     comment |-> raw.comment, language |-> raw.language, timestamp |-> raw.timestamp,
     data_size |-> last.size]

\* C23: the metadata round trip.  After a successful sat_write of a name of
\* 1..11 characters with a comment of 0..10 characters, a language 0..5 and
\* a timestamp, sat_query_file of the name and sat_list_saves return the
\* save name, the name followed by ".BUP", the comment, the language, the
\* timestamp and the payload size that were written.
C23_MetadataRoundTrip ==
    (raw.kind = "metadata" /\ last.op = "sat_write" /\ last.res = SLINGA_SUCCESS)
    => /\ obs.op = "sat_query_file"
          => (obs.res = SLINGA_SUCCESS /\ obs.out.metadata = MetadataWritten)
       /\ obs.op = "sat_list_saves"
          => (obs.res = SLINGA_SUCCESS /\ obs.out.saves = <<MetadataWritten>>)

\* C24: sat_read of a live save returns SLINGA_BUFFER_TOO_SMALL exactly when
\* the size of the caller's buffer is smaller than the data_size stored for
\* the save.
C24_BufferTooSmall ==
    (obs.op = "sat_read" /\ ValidParameters /\ Exists(obs.filename, part))
    => ((obs.res = SLINGA_BUFFER_TOO_SMALL)
           <=> (obs.size < QueryOf(obs.filename, part).metadata.data_size))

\* C25: get_bitmap_size returns an error whenever partition_size /
\* block_size / 8 exceeds SAT_MAX_BITMAP, so the bytes of g_SAT_bitmap that
\* are cleared afterwards all lie below index SAT_MAX_BITMAP.
C25_BitmapCapped ==
    obs.op = "get_bitmap_size"
    => /\ ((dev.partition_size \div dev.block_size) \div 8 > SAT_MAX_BITMAP)
             => obs.res # SLINGA_SUCCESS
       /\ obs.out.cleared <= SAT_MAX_BITMAP

\* the blocks of the save that starts in block b of p
BlocksFrom(p, b) ==
    { ChainFrom(p, <<b>>, 1, SAT_HEADER_SIZE)[i] :
        i \in 1..Len(ChainFrom(p, <<b>>, 1, SAT_HEADER_SIZE)) }

\* no block of p is the start block or a chain entry of two live saves
NoSharedBlock(p) ==
    \A b, c \in StartBlocks(p) : b # c => BlocksFrom(p, b) \cap BlocksFrom(p, c) = {}

\* what sat_read returns for the save of that name on p, into a buffer of
\* the size its header states
Stored(filename, p) == ReadOf(filename, QueryOf(filename, p).metadata.data_size, p)

\* C26: a successful sat_write (overwriting or not) or sat_delete on a
\* partition whose live saves share no block leaves a partition whose live
\* saves share no block, and every other live save that read back before
\* the call reads back the same payload after it.
C26_SavesKeptApart ==
    [][((Called("sat_write") \/ Called("sat_delete")) /\ last'.res = SLINGA_SUCCESS
          /\ ValidParameters /\ NoSharedBlock(part))
        => /\ NoSharedBlock(part')
           /\ \A n \in (Names \cup {NameC}) \ {last'.filename} :
                 \A before \in { Stored(n, part) } :
                    before.res = SLINGA_SUCCESS => Stored(n, part') = before]_vars

\* the 11 bytes of the save name in the header of block b
NameIn(p, b) ==
    HdrSavename(read_from_partition(p, b * dev.block_size, 0, SAT_HEADER_SIZE,
                                    dev.skip_bytes).dst)

\* C27: a save that sat_write wrote is stored under the filename of the
\* call, the name the existence check used, and sat_query_file finds it
\* under that filename; and after the call no two live start blocks carry
\* the same 11-byte save name.
C27_StoredUnderFilename ==
    [][(Called("sat_write") /\ last'.res = SLINGA_SUCCESS /\ ValidParameters)
        => /\ Exists(last'.filename, part')
           /\ QueryOf(last'.filename, part').metadata.data_size = last'.size
           /\ \A b, c \in StartBlocks(part') :
                 b # c => NameIn(part', b) # NameIn(part', c)]_vars

\* C28: decompress_RLE01 never reads the source at an index >= src_size.
\* Every pass of its loop reads src[i] and, for a key, src[i + 1] and
\* src[i + 2] before it moves the cursor i behind them, so the bytes read
\* are those below the final cursor: the cursor of neither pass ends behind
\* src_size, also for src_size = 0 and for a key in the last two bytes.
C28_NoOverread ==
    /\ obs.op \in {"sized", "decompress_RLE01"} => obs.sized.i <= Len(obs.src)
    /\ obs.op = "decompress_RLE01" => obs.written.i <= Len(obs.src)

\* the arguments of an accessor call are ones it accepts
IoValid(c) == c.sk \in {0, 1} /\ c.size # 0 /\ c.null = "none"

\* the physical offset of logical byte i of the call
IoPhys(c, i) ==
    IF c.sk = 1 THEN c.base + 2 * (c.offset + i) + 1 ELSE c.base + c.offset + i

\* C29: with skip_bytes = 1, writing or filling n bytes at logical offset o
\* changes exactly the physical bytes base + 2 * (o + i) + 1, 0 <= i < n,
\* to the bytes given, and reading (o, n) returns the bytes at those
\* offsets; with skip_bytes = 0 the same calls are contiguous copies; with
\* another skip_bytes value, a null buffer or n = 0 they return
\* SLINGA_INVALID_PARAMETER and change nothing.
C29_SkipBytes ==
    /\ [][(nops' = nops + 1 /\ last'.op \in {"write_to_partition", "memset_partition"})
            => \A c \in { last' } :
                  IF IoValid(c)
                  THEN /\ c.res = SLINGA_SUCCESS
                       /\ \A a \in 0..(dev.buffer_size - 1) :
                             IF \E i \in 0..(c.size - 1) : a = IoPhys(c, i)
                             THEN \E i \in 0..(c.size - 1) :
                                     a = IoPhys(c, i) /\ ByteAt(part', a) = c.out[i + 1]
                             ELSE ByteAt(part', a) = ByteAt(part, a)
                  ELSE c.res = SLINGA_INVALID_PARAMETER /\ part' = part]_vars
    /\ [](obs.op = "read_from_partition"
            => IF IoValid(obs)
               THEN /\ obs.res = SLINGA_SUCCESS
                    /\ Len(obs.out) = obs.size
                    /\ \A i \in 0..(obs.size - 1) :
                          obs.out[i + 1] = ByteAt(part, IoPhys(obs, i))
               ELSE obs.res = SLINGA_INVALID_PARAMETER)

\* three bytes were written with skip_bytes = 1 across the end of a row and
\* read back from the same place
C29_Witness ==
    /\ last.op = "write_to_partition" /\ last.res = SLINGA_SUCCESS /\ last.sk = 1
    /\ last.size = 3 /\ last.offset = 30
    /\ obs.op = "read_from_partition" /\ obs.res = SLINGA_SUCCESS /\ obs.sk = 1
    /\ obs.base = last.base /\ obs.offset = last.offset /\ obs.size = last.size
    /\ obs.out = last.out
    /\ ByteAt(part, last.base + 60) = 255 /\ ByteAt(part, last.base + 61) = last.out[1]
    /\ ByteAt(part, last.base + 65) = last.out[3] /\ ByteAt(part, last.base + 66) = 255

\* C30: a bitmap of bitmap_size >= 1 bytes that invert_bitmap is applied to
\* twice is the bitmap it was (and so is the rest of its buffer), every call
\* succeeds, and the totals count_bitmap gives for the bitmap and for the
\* inverted bitmap add up to 8 * bitmap_size; without a bitmap or with
\* bitmap_size 0 both functions return SLINGA_INVALID_PARAMETER and leave the
\* buffer alone
C30_BitmapSymmetry ==
    IF raw.bitmap = NULL \/ raw.bitmap_size = 0
    THEN /\ last.out.bitmap = raw.bitmap
         /\ nops > 0 => last.res = SLINGA_INVALID_PARAMETER
         /\ \A k \in 0..MaxInvertOps :
               obs.out.counted[k] => obs.out.res[k] = SLINGA_INVALID_PARAMETER
    ELSE /\ last.res = SLINGA_SUCCESS
         /\ nops % 2 = 0 => last.out.bitmap = raw.bitmap
         /\ \A i \in raw.bitmap_size..(MaxBitmapBytes - 1) :
               last.out.bitmap[i] = raw.bitmap[i]
         /\ \A k \in 0..MaxInvertOps : obs.out.counted[k] => obs.out.res[k] = SLINGA_SUCCESS
         /\ \A k \in 0..(MaxInvertOps - 1) :
               obs.out.counted[k] /\ obs.out.counted[k + 1]
               => obs.out.total[k] + obs.out.total[k + 1] = 8 * raw.bitmap_size

\* a two-byte bitmap with some bits set, inverted twice and counted before and
\* after the first inversion
C30_Witness ==
    /\ raw.bitmap # NULL
    /\ raw.bitmap_size = 2
    /\ raw.bitmap[0] = 165
    /\ raw.bitmap[1] = 1
    /\ nops = 2
    /\ last.op = "invert_bitmap"
    /\ last.out.bitmap = raw.bitmap
    /\ obs.out.counted[0]
    /\ obs.out.counted[1]
    /\ obs.out.total[0] = 5
    /\ obs.out.total[1] = 11

====
